---- MODULE Spec2Model ----
(***************************************************************************)
(* A model of the deferred log delivery engine of pymongowatch:            *)
(* pymongo/watcher/logger.py, classes WatchMessage and WatchQueue.         *)
(*                                                                         *)
(* Producers own one WatchMessage each; every log call wraps the message   *)
(* in a fresh LogRecord and hands it to WatchQueue.put_nowait.  Consumers  *)
(* (logging.handlers.QueueListener threads) call WatchQueue.get in a loop. *)
(* A put_nowait call is one step; a get call is a step for each pass of    *)
(* its loop under new_item_condition and a step for what it does after it  *)
(* has left the lock.                                                      *)
(***************************************************************************)
EXTENDS Integers, Sequences, FiniteSets, TLC

\* ---- bounds of the model ----
NumMsgs == 2          \* WatchMessages (one producer thread each)
MaxRecords == 2       \* LogRecords created over a run
MaxTime == 2          \* the clock runs over 1..MaxTime
MaxDelay == 1         \* delays a producer may ask for
NumConsumers == 2     \* threads that may call get
MaxRepeats == 1       \* set_ready calls on a message that is already ready
GcLimit == 1          \* garbage_collection_limit of the modelled queue
TwinRecords == 3      \* LogRecords created while a second queue is compared
TwinTime == 3         \* the clock's last value in those runs
CollectDelay == 2     \* default_delay_sec of the queues that are compared
NumThreads == 2       \* threads that log through the handler of a RateFilter
MaxFiltered == 2      \* calls of RateFilter.filter in a run
MaxCount == 2         \* values of the aggregated attribute
RateWindow == 1       \* output_rate_sec of the modelled RateFilter
WatchTimeout == 1     \* BaseWatcher._watch_timeout_sec
MaxBatch == 2         \* documents in a batch the server returns
MaxElapsed == 1       \* time a call of next takes
MaxNexts == 3         \* calls of WatchCursor.next in a run
MaxCloses == 2        \* calls of WatchCursor.close in a run
MaxRewinds == 1       \* calls of WatchCursor.rewind in a run
MaxRestores == 2      \* calls of RestoreOriginalWatcher.filter on a record

Msgs == 1..NumMsgs
Producers == 0..NumMsgs      \* producer 0 enqueues the sentinel
Consumers == 1..NumConsumers
Threads == 1..NumThreads
NoMsg == 0                   \* item.watch is None
Sentinel == 0                \* the item None (QueueListener's sentinel)
NONE == -1                   \* the local marker NONE = object() of get
NoTime == 0                  \* None in place of a timestamp
NoRec == 0                   \* ready_call_back not bound to an item

VARIABLES
    now,                      \* time.time()
    maxsize, default_delay_sec, force_default_delay,
    garbage_collection_limit, \* WatchQueue.__init__ parameters
    ready,                    \* WatchMessage._ready
    timeout_on,               \* WatchMessage.timeout_on
    ready_call_back,          \* the item WatchMessage.ready_call_back is bound to
    reay_call_back,           \* the attribute get writes on a timed-out item's watch
    records,                  \* the LogRecords created so far: their watch and
                              \* the deadline put_nowait computed for them
    queue,                    \* WatchQueue.queue, the heapq list of (ts, item)
    ready_items,              \* WatchQueue.ready_items, in insertion order
    garbage_items,            \* WatchQueue.garbage_items
    put_result,               \* the latest put_nowait call: whose it was and
                              \* how it ended
    stop_pc,                  \* whether the sentinel has been enqueued
    put_pc,                   \* a producer's position in put_nowait
    pc,                       \* a consumer's position in get
    queue_ts, queue_item, ready_ts, ready_item,   \* the locals of get
    wait_until, notified,     \* a consumer inside new_item_condition.wait
    delivered,                \* what get has returned
    set_ready_repeats,        \* set_ready calls that found the message ready
    set_ready_result,         \* what set_ready last returned, for a call on a
                              \* ready message (TRUE) and on one not yet ready
    callback_runs,            \* ready_call_back invocations per message
    twin,                     \* "off", or how a second WatchQueue that gets the
                              \* same calls but never runs garbage_collect
                              \* compares so far: "same" or "differs"
    lazy_queue, lazy_garbage, \* queue and garbage_items of that second queue
    lazy_queue_ts, lazy_queue_item,  \* queue_ts and queue_item of its get
    tied,                     \* whether a put_nowait has pushed a deadline
                              \* that one of the two heaps already held
    output_rate_sec, ignore_intermediates, drop_records,
    ignore_nones, clone_watch,
                              \* RateFilter.__init__ parameters
    filter_error,             \* the exception RateFilter.__init__ raised
    attributes,               \* RateFilter.attributes
    intermediate_records,     \* RateFilter._intermediate_records, by WatchID
    namespace,                \* RateFilter._namespace
    next_watch_id,            \* the WatchID the next WatchMessage() gets
    filter_pc,                \* a thread's position in RateFilter.filter
    filter_record,            \* the record it filters and the locals of filter
    filter_calls,             \* calls of filter started so far
    emitted,                  \* the records filter has returned a result for
    restorations,             \* those a RestoreOriginalWatcher has filtered
    op_config,                \* the field specifications and the call of a
                              \* watched operation
    op_pc,                    \* the position of OperationWatcher._operation
    op_message,               \* the WatchMessage of the operation
    op_result,                \* what the operation itself did
    op_outcome,               \* what the caller of the operation gets
    op_logs,                  \* the logs emitted for the operation
    cursor,                   \* a WatchCursor: what is used here of the
                              \* pymongo Cursor it extends, and its own
                              \* attributes
    watch_emit_on_new_retrieves,
                              \* WatchCursor.watch_emit_on_new_retrieves
    cursor_log,               \* the logs emitted for the cursor
    finalized,                \* the records finalize was called on, in order,
                              \* and the method that called it
    closed,                   \* the records close has run for
    calls,                    \* the calls of next, close and rewind so far
    watch_cursors,            \* the stand-alone WatchCursors of pymongowatch.py
                              \* in the order of their creation, each with its
                              \* attributes and its __watch_log
    all_logs,                 \* WatchCursor._watch_all_logs: the cursors whose
                              \* __watch_log it holds
    followers,                \* a generator of watch_follow_logs: its position,
                              \* its deque in _watch_followers, its locals, and
                              \* how many cursors there were when it began
    wait_time_ms,             \* the wait_time_ms the followers were made with
    followed,                 \* what the followers have yielded
    fetches,                  \* the calls of next on each stand-alone cursor:
                              \* how many, how many returned, how long
    since_clear               \* the cursors created since watch_clear_logs

config == <<maxsize, default_delay_sec, force_default_delay,
            garbage_collection_limit>>
message == <<ready, timeout_on, ready_call_back, reay_call_back>>
store == <<queue, ready_items, garbage_items>>
producer == <<put_result, stop_pc, put_pc>>
locals == <<queue_ts, queue_item, ready_ts, ready_item>>
consumer == <<pc, locals, wait_until, notified>>
history == <<delivered, set_ready_repeats, set_ready_result, callback_runs>>
lazy == <<twin, lazy_queue, lazy_garbage, lazy_queue_ts, lazy_queue_item,
          tied>>
filter_config == <<output_rate_sec, ignore_intermediates, drop_records,
                   ignore_nones, clone_watch, filter_error>>
aggregator == <<filter_config, attributes, intermediate_records, namespace,
                next_watch_id, filter_pc, filter_record, filter_calls, emitted,
                restorations>>
operation == <<op_config, op_pc, op_message, op_result, op_outcome, op_logs>>
cursors == <<cursor, watch_emit_on_new_retrieves, cursor_log, finalized,
             closed, calls>>
standalone == <<watch_cursors, all_logs, followers, wait_time_ms, followed,
                fetches, since_clear>>
watchers == <<operation, cursors, standalone>>
queues == <<config, message, records, store, producer, consumer, history,
            lazy>>
vars == <<now, config, message, records, store, producer, consumer, history,
          lazy, aggregator, watchers>>

\* ---- items ----

\* getattr(item, "watch", None)
WatchOf(item) == IF item \in 1..Len(records) THEN records[item].watch ELSE NoMsg

\* ---- heapq on a list of (ts, item) tuples ----

\* tuple comparison a < b: "T", "F", or "E" when it raises TypeError
\* (equal timestamps make Python compare the items themselves)
TupleLt(a, b) ==
    IF a[1] # b[1] THEN (IF a[1] < b[1] THEN "T" ELSE "F")
    ELSE IF a[2] = b[2] THEN "F" ELSE "E"

Swap(h, i, j) == [h EXCEPT ![i] = h[j], ![j] = h[i]]

RECURSIVE siftdown(_, _, _)
siftdown(h, startpos, pos) ==
    IF pos <= startpos THEN [heap |-> h, err |-> FALSE]
    ELSE LET parentpos == pos \div 2
             c == TupleLt(h[pos], h[parentpos])
         IN  IF c = "E" THEN [heap |-> h, err |-> TRUE]
             ELSE IF c = "F" THEN [heap |-> h, err |-> FALSE]
             ELSE siftdown(Swap(h, pos, parentpos), startpos, parentpos)

RECURSIVE siftup_loop(_, _)
siftup_loop(h, pos) ==
    IF 2 * pos > Len(h) THEN [heap |-> h, pos |-> pos, err |-> FALSE]
    ELSE LET left == 2 * pos
             right == 2 * pos + 1
             c == IF right <= Len(h) THEN TupleLt(h[left], h[right]) ELSE "T"
         IN  IF c = "E" THEN [heap |-> h, pos |-> pos, err |-> TRUE]
             ELSE LET childpos == IF c = "T" THEN left ELSE right
                  IN  siftup_loop(Swap(h, pos, childpos), childpos)

siftup(h, pos) ==
    LET bubble(r) == IF r.err THEN [heap |-> r.heap, err |-> TRUE]
                     ELSE siftdown(r.heap, pos, r.pos)
    IN  bubble(siftup_loop(h, pos))

\* a heappush that appends the entry and does not sift it
heappush_NoSift(h, e) == [heap |-> Append(h, e), err |-> FALSE]

\* heapq.heappush: the item is appended before it is sifted
heappush(h, e) == siftdown(Append(h, e), 1, Len(h) + 1)

\* heapq.heappop: err is "ok", "IndexError" or "TypeError"; when the sift
\* raises, the root has already been replaced by the last element
heappop(h) ==
    IF Len(h) = 0 THEN [heap |-> h, item |-> <<NoTime, NONE>>, err |-> "IndexError"]
    ELSE LET lastelt == h[Len(h)]
             rest == SubSeq(h, 1, Len(h) - 1)
             popped(r) == [heap |-> r.heap, item |-> rest[1],
                           err |-> IF r.err THEN "TypeError" ELSE "ok"]
         IN  IF Len(rest) = 0 THEN [heap |-> rest, item |-> lastelt, err |-> "ok"]
             ELSE popped(siftup([rest EXCEPT ![1] = lastelt], 1))

\* ---- the ready_items dict, kept in insertion order ----

InDict(d, k) == \E i \in 1..Len(d) : d[i][1] = k

\* d[k] = v: a new key goes last, an existing key keeps its place
DictSet(d, k, v) ==
    IF InDict(d, k) THEN [i \in 1..Len(d) |-> IF d[i][1] = k THEN <<k, v>> ELSE d[i]]
    ELSE Append(d, <<k, v>>)

SelectSeq2(d, k) == SelectSeq(d, LAMBDA e : e[1] # k)

\* d.pop(k, None)
DictPop(d, k) == SelectSeq2(d, k)

\* a notify_all that wakes nobody
NotifyAll_Nobody == notified

NotifyAll == [c \in Consumers |-> IF pc[c] = "wait" THEN TRUE ELSE notified[c]]

\* ---- WatchMessage ----

\* a _ready_call_back that does not call notify_all
ReadyCallBack_NoNotify(item) ==
    /\ ready_items' = DictSet(ready_items, item, now)
    /\ notified' = notified

\* how many LogRecords the producers create in a run, and how far its
\* clock runs
RecordLimit == IF twin = "off" THEN MaxRecords ELSE TwinRecords
TimeLimit == IF twin = "off" THEN MaxTime ELSE TwinTime

\* WatchQueue._ready_call_back(item), under new_item_condition
ReadyCallBack(item) ==
    /\ ready_items' = DictSet(ready_items, item, now)
    /\ notified' = NotifyAll

\* the producer sets the message's deadline (make(delay_sec=d), or an
\* assignment to timeout_on while the message is not ready)
SetTimeout(w, d) ==
    /\ ~ready[w]
    /\ now + d <= TimeLimit
    /\ timeout_on' = [timeout_on EXCEPT ![w] = now + d]
    /\ UNCHANGED <<now, config, aggregator, watchers, ready, ready_call_back, reay_call_back,
                   records, store, producer, consumer, history, lazy>>

\* a set_ready without the test of _ready: it runs the callback every time
SetReady_NoGuard(w) ==
    /\ ready[w] => set_ready_repeats < MaxRepeats
    /\ set_ready_repeats' = IF ready[w] THEN set_ready_repeats + 1
                            ELSE set_ready_repeats
    /\ callback_runs' = [callback_runs EXCEPT ![w] = @ + 1]
    /\ IF ready_call_back[w] # NoRec
       THEN ReadyCallBack(ready_call_back[w])
       ELSE UNCHANGED <<ready_items, notified>>
    /\ ready' = [ready EXCEPT ![w] = TRUE]
    /\ set_ready_result' = [set_ready_result EXCEPT ![ready[w]] = "None"]
    /\ UNCHANGED <<now, config, aggregator, watchers, timeout_on, ready_call_back, reay_call_back,
                   records, queue, garbage_items, producer, pc, locals,
                   wait_until, delivered, lazy>>

\* WatchMessage.set_ready; it returns None on every path
SetReady(w) ==
    /\ ready[w] => set_ready_repeats < MaxRepeats
    /\ set_ready_repeats' = IF ready[w] THEN set_ready_repeats + 1
                            ELSE set_ready_repeats
    /\ IF ~ready[w]
       THEN /\ callback_runs' = [callback_runs EXCEPT ![w] = @ + 1]
            /\ IF ready_call_back[w] # NoRec
               THEN ReadyCallBack(ready_call_back[w])
               ELSE UNCHANGED <<ready_items, notified>>
       ELSE UNCHANGED <<callback_runs, ready_items, notified>>
    /\ ready' = [ready EXCEPT ![w] = TRUE]
    /\ set_ready_result' = [set_ready_result EXCEPT ![ready[w]] = "None"]
    /\ UNCHANGED <<now, config, aggregator, watchers, timeout_on, ready_call_back, reay_call_back,
                   records, queue, garbage_items, producer, pc, locals,
                   wait_until, delivered, lazy>>

\* ---- WatchQueue.put_nowait ----

\* the capacity test of put_nowait
IsFull == Len(queue) >= maxsize /\ maxsize > 0

\* a put_nowait that leaves default_delay_sec out of the deadline
PutTimeout_NoDefault(p) ==
    IF ~force_default_delay /\ p # 0 /\ timeout_on[p] # NoTime
    THEN timeout_on[p]
    ELSE now

\* the deadline put_nowait computes for an item of producer p
PutTimeout(p) ==
    IF ~force_default_delay /\ p # 0 /\ timeout_on[p] # NoTime
    THEN timeout_on[p]
    ELSE now + default_delay_sec

\* the item goes on the heap (and not straight into ready_items)
PutOnHeap(p) == force_default_delay \/ p = 0 \/ ~ready[p]

\* the heappush of the same put_nowait call on the second queue
LazyPut(p) ==
    /\ lazy_queue' =
          IF twin = "same" /\ ~IsFull /\ PutOnHeap(p)
          THEN heappush(lazy_queue,
                        <<PutTimeout(p),
                          IF p = 0 THEN Sentinel ELSE Len(records) + 1>>).heap
          ELSE lazy_queue
    /\ tied' = IF twin = "same" /\ ~IsFull /\ PutOnHeap(p)
               THEN \/ tied
                    \/ \E i \in 1..Len(queue) : queue[i][1] = PutTimeout(p)
                    \/ \E i \in 1..Len(lazy_queue) :
                          lazy_queue[i][1] = PutTimeout(p)
               ELSE tied
    /\ UNCHANGED <<twin, lazy_garbage, lazy_queue_ts, lazy_queue_item>>

\* what put_nowait does with its item once the capacity test has let it
\* pass; the item is a fresh LogRecord whose watch is the producer's
\* message, or the sentinel for producer 0. put_result.result is
\* "TypeError" when heappush raises.
PutItem(p) ==
    LET item == IF p = 0 THEN Sentinel ELSE Len(records) + 1
    IN  /\ p # 0 => Len(records) < RecordLimit
        /\ now + default_delay_sec <= TimeLimit
        /\ records' = IF p = 0 THEN records
                      ELSE Append(records, [watch |-> p, ts |-> PutTimeout(p)])
        /\ stop_pc' = IF p = 0 THEN "done" ELSE stop_pc
        /\ IF PutOnHeap(p)
           THEN \E r \in {heappush(queue, <<PutTimeout(p), item>>)} :
                    /\ ready_call_back' =
                          IF p # 0 THEN [ready_call_back EXCEPT ![p] = item]
                          ELSE ready_call_back
                    /\ queue' = r.heap
                    /\ notified' = IF r.err THEN notified ELSE NotifyAll
                    /\ put_result' = [by |-> p, result |->
                                          IF r.err THEN "TypeError" ELSE "ok"]
                    /\ UNCHANGED ready_items
           ELSE /\ ReadyCallBack(item)
                /\ put_result' = [by |-> p, result |-> "ok"]
                /\ UNCHANGED <<ready_call_back, queue>>
        /\ UNCHANGED garbage_items

\* put_nowait(item) by producer p while no other thread is inside
\* put_nowait. put_result.result is "Full" when the call raises queue.Full.
Put(p) ==
    /\ p = 0 => stop_pc = "idle"
    /\ \A o \in Producers : put_pc[o] = "idle"
    /\ IF IsFull
       THEN /\ put_result' = [by |-> p, result |-> "Full"]
            /\ UNCHANGED <<ready_call_back, records, store, notified, stop_pc>>
       ELSE PutItem(p)
    /\ LazyPut(p)
    /\ UNCHANGED <<now, config, aggregator, watchers, ready, timeout_on, reay_call_back, pc, locals,
                   wait_until, history, put_pc>>

\* the capacity test of put_nowait as a step of its own: the test reads
\* len(self.queue) without the lock, and other threads run before the
\* push
PutCheck(p) ==
    /\ p = 0 => stop_pc = "idle"
    /\ put_pc[p] = "idle"
    /\ IF IsFull
       THEN /\ put_result' = [by |-> p, result |-> "Full"]
            /\ UNCHANGED put_pc
       ELSE /\ put_pc' = [put_pc EXCEPT ![p] = "checked"]
            /\ UNCHANGED put_result
    /\ UNCHANGED <<now, config, aggregator, watchers, message, records, store,
                   stop_pc, consumer, history, lazy>>

\* the rest of that put_nowait call
PutPush(p) ==
    /\ put_pc[p] = "checked"
    /\ PutItem(p)
    /\ put_pc' = [put_pc EXCEPT ![p] = "idle"]
    /\ UNCHANGED <<now, config, aggregator, watchers, ready, timeout_on, reay_call_back, pc, locals,
                   wait_until, history, lazy>>

\* ---- WatchQueue.get ----

\* the inner loop of get: look at queue[0]; if it has timed out and its
\* watch is in garbage_items, pop it, take the watch out of garbage_items
\* and look again.  qts and qitem are the locals queue_ts and queue_item,
\* which keep their values when the heap is empty.
RECURSIVE skip_fetched(_, _, _, _, _)
skip_fetched(q, g, qts, qitem, tnow) ==
    IF Len(q) = 0
    THEN [queue |-> q, garbage |-> g, queue_ts |-> qts, queue_item |-> qitem,
          err |-> FALSE]
    ELSE LET ts == q[1][1]
             item == q[1][2]
             cand == IF tnow >= ts THEN item ELSE NONE
             item_watch == WatchOf(cand)
             skip(p) ==
                 IF p.err # "ok"
                 THEN [queue |-> p.heap, garbage |-> g, queue_ts |-> ts,
                       queue_item |-> NONE, err |-> TRUE]
                 ELSE skip_fetched(p.heap, g \ {item_watch}, ts, NONE, tnow)
         IN  IF item_watch # NoMsg /\ item_watch \in g
             THEN skip(heappop(q))
             ELSE [queue |-> q, garbage |-> g, queue_ts |-> ts,
                   queue_item |-> cand, err |-> FALSE]

\* what a pass of the outer loop of get settles on: it raises, it waits,
\* or it leaves with the heap candidate or the ready candidate
Candidates(err, qitem, qts, ritem, rts) ==
    IF err THEN <<"raise", NONE>>
    ELSE IF qitem = NONE /\ ritem = NONE THEN <<"wait", NONE>>
    ELSE IF qitem # NONE /\ (ritem = NONE \/ qts < rts) THEN <<"heap", qitem>>
    ELSE <<"ready", ritem>>

\* the same pass of get on the second queue, which holds the same
\* ready_items, and whether it settles on what the first queue's pass did
LazyScan(c) ==
    IF twin # "same" THEN UNCHANGED lazy
    ELSE \E sl \in {skip_fetched(lazy_queue, lazy_garbage, lazy_queue_ts[c],
                                 lazy_queue_item[c], now)} :
            /\ lazy_queue' = sl.queue
            /\ lazy_garbage' = sl.garbage
            /\ lazy_queue_ts' = [lazy_queue_ts EXCEPT ![c] = sl.queue_ts]
            /\ lazy_queue_item' = [lazy_queue_item EXCEPT ![c] = sl.queue_item]
            /\ UNCHANGED tied
            /\ twin' = IF Candidates(sl.err, sl.queue_item, sl.queue_ts,
                                     ready_item'[c], ready_ts'[c])
                          = Candidates(pc'[c] = "TypeError", queue_item'[c],
                                       queue_ts'[c], ready_item'[c], ready_ts'[c])
                       THEN "same" ELSE "differs"

\* a consumer may enter the locked loop of get: it starts a call, or its
\* wait has been notified or has timed out
CanScan(c) ==
    \/ pc[c] = "idle"
    \/ /\ pc[c] = "wait"
       /\ notified[c] \/ (wait_until[c] # NoTime /\ now >= wait_until[c])

\* one pass of the outer loop of get, under new_item_condition: it ends in
\* wait() (which releases the lock) or leaves the with block with candidates
GetScan(c) ==
    /\ CanScan(c)
    /\ \E s \in {skip_fetched(queue, garbage_items, queue_ts[c], queue_item[c], now)} :
       LET has_ready == Len(ready_items) > 0
           ritem == IF has_ready THEN ready_items[1][1] ELSE ready_item[c]
           rts == IF has_ready THEN ready_items[1][2] ELSE ready_ts[c]
       IN  /\ queue' = s.queue
           /\ garbage_items' = s.garbage
           /\ queue_ts' = [queue_ts EXCEPT ![c] = s.queue_ts]
           /\ queue_item' = [queue_item EXCEPT ![c] = s.queue_item]
           /\ IF s.err
              THEN /\ pc' = [pc EXCEPT ![c] = "TypeError"]
                   /\ UNCHANGED <<ready_item, ready_ts, wait_until>>
              ELSE /\ ready_item' = [ready_item EXCEPT ![c] = ritem]
                   /\ ready_ts' = [ready_ts EXCEPT ![c] = rts]
                   /\ IF s.queue_item = NONE /\ ritem = NONE
                      THEN /\ pc' = [pc EXCEPT ![c] = "wait"]
                           /\ wait_until' = [wait_until EXCEPT ![c] = s.queue_ts]
                      ELSE /\ pc' = [pc EXCEPT ![c] = "picked"]
                           /\ UNCHANGED wait_until
           /\ notified' = [notified EXCEPT ![c] = FALSE]
    /\ LazyScan(c)
    /\ UNCHANGED <<now, config, aggregator, watchers, message, records, ready_items, producer, history>>

\* WatchQueue.garbage_collect: pop everything, drop one entry per garbage
\* watch, push the rest back
RECURSIVE gc_drain(_, _, _)
gc_drain(q, g, useful_items) ==
    IF Len(q) = 0
    THEN [queue |-> q, garbage |-> g, useful_items |-> useful_items, err |-> FALSE]
    ELSE LET sort(p) ==
                 IF p.err # "ok"
                 THEN [queue |-> p.heap, garbage |-> g, useful_items |-> useful_items,
                       err |-> TRUE]
                 ELSE IF WatchOf(p.item[2]) # NoMsg /\ WatchOf(p.item[2]) \in g
                 THEN gc_drain(p.heap, g \ {WatchOf(p.item[2])}, useful_items)
                 ELSE gc_drain(p.heap, g, Append(useful_items, p.item))
         IN  sort(heappop(q))

RECURSIVE gc_restore(_, _)
gc_restore(q, useful_items) ==
    IF Len(useful_items) = 0 THEN [heap |-> q, err |-> FALSE]
    ELSE LET pushed(r) == IF r.err THEN r
                          ELSE gc_restore(r.heap, Tail(useful_items))
         IN  pushed(heappush(q, Head(useful_items)))

garbage_collect(q, g) ==
    LET restored(r, garbage) == [queue |-> r.heap, garbage |-> garbage, err |-> r.err]
        drained(d) ==
            IF d.err THEN [queue |-> d.queue, garbage |-> d.garbage, err |-> TRUE]
            ELSE restored(gc_restore(d.queue, d.useful_items), d.garbage)
    IN  drained(gc_drain(q, g, <<>>))

\* the entry the history gets when get returns item to consumer c, q being
\* the heap it leaves behind
Delivery(item, c, path, q) ==
    [item |-> item, by |-> c, path |-> path,
     first |-> \A i \in 1..Len(q) :
                  WatchOf(item) # NoMsg /\ WatchOf(q[i][2]) # NoMsg
                      => records[item].ts <= q[i][1],
     final |-> WatchOf(item) # NoMsg /\ ready[WatchOf(item)],
     due |-> WatchOf(item) # NoMsg /\ records[item].ts <= now,
     stale |-> /\ WatchOf(item) # NoMsg
               /\ \E r \in (item + 1)..Len(records) :
                     records[r].watch = WatchOf(item)]

\* the choice get makes between its two candidates
TakesQueueItem(c) ==
    queue_item[c] # NONE /\ (ready_item[c] = NONE \/ queue_ts[c] < ready_ts[c])

\* what get does after the with block, without the lock: the optional
\* garbage_collect, then the pop of the chosen candidate
GetOutcome(c) ==
    LET taken(p, gc) ==
            [queue |-> p.heap, garbage |-> gc.garbage,
             ready_items |-> IF p.err = "ok" THEN DictPop(ready_items, p.item[2])
                             ELSE ready_items,
             result |-> p.err, item |-> p.item[2], path |-> "heap"]
        ready_taken(watch_item, gc) ==
            [queue |-> gc.queue,
             garbage |-> IF watch_item # NoMsg THEN gc.garbage \cup {watch_item}
                         ELSE gc.garbage,
             ready_items |-> DictPop(ready_items, ready_item[c]),
             result |-> IF InDict(ready_items, ready_item[c]) THEN "ok"
                        ELSE "KeyError",
             item |-> ready_item[c], path |-> "ready"]
        outcome(gc) ==
            IF gc.err
            THEN [queue |-> gc.queue, garbage |-> gc.garbage,
                  ready_items |-> ready_items,
                  result |-> "TypeError", item |-> NONE, path |-> "none"]
            ELSE IF TakesQueueItem(c) THEN taken(heappop(gc.queue), gc)
            ELSE ready_taken(WatchOf(ready_item[c]), gc)
    IN  outcome(IF Cardinality(garbage_items) > garbage_collection_limit
                THEN garbage_collect(queue, garbage_items)
                ELSE [queue |-> queue, garbage |-> garbage_items, err |-> FALSE])

\* the tail of the same get on the second queue, which never collects: o
\* is what the first queue's get came to
LazyReturn(c, o) ==
    IF twin # "same" THEN UNCHANGED lazy
    ELSE /\ IF /\ lazy_queue_item[c] # NONE
               /\ ready_item[c] = NONE \/ lazy_queue_ts[c] < ready_ts[c]
            THEN \E pl \in {heappop(lazy_queue)} :
                    /\ lazy_queue' = pl.heap
                    /\ twin' = IF /\ o.path = "heap"
                                  /\ o.result = pl.err
                                  /\ o.item = pl.item[2]
                               THEN "same" ELSE "differs"
                    /\ UNCHANGED lazy_garbage
            ELSE /\ lazy_garbage' =
                       IF WatchOf(ready_item[c]) # NoMsg
                       THEN lazy_garbage \cup {WatchOf(ready_item[c])}
                       ELSE lazy_garbage
                 /\ twin' = IF o.path = "ready" /\ o.item = ready_item[c]
                            THEN "same" ELSE "differs"
                 /\ UNCHANGED lazy_queue
         /\ lazy_queue_ts' = [lazy_queue_ts EXCEPT ![c] = NoTime]
         /\ lazy_queue_item' = [lazy_queue_item EXCEPT ![c] = NONE]
         /\ UNCHANGED tied

GetReturn(c) ==
    /\ pc[c] = "picked"
    /\ \E o \in {GetOutcome(c)} :
       LET w == WatchOf(o.item)
       IN  /\ queue' = o.queue
           /\ garbage_items' = o.garbage
           /\ ready_items' = o.ready_items
           /\ reay_call_back' =
                 IF o.result = "ok" /\ o.path = "heap" /\ w # NoMsg
                 THEN [reay_call_back EXCEPT ![w] = TRUE]
                 ELSE reay_call_back
           /\ IF o.result = "ok"
              THEN /\ delivered' = delivered \cup {Delivery(o.item, c, o.path, o.queue)}
                   /\ pc' = [pc EXCEPT ![c] = IF o.item = Sentinel THEN "stopped"
                                              ELSE "idle"]
              ELSE /\ pc' = [pc EXCEPT ![c] = o.result]
                   /\ UNCHANGED delivered
           /\ LazyReturn(c, o)
    /\ queue_ts' = [queue_ts EXCEPT ![c] = NoTime]
    /\ queue_item' = [queue_item EXCEPT ![c] = NONE]
    /\ ready_ts' = [ready_ts EXCEPT ![c] = NoTime]
    /\ ready_item' = [ready_item EXCEPT ![c] = NONE]
    /\ UNCHANGED <<now, config, aggregator, watchers, ready, timeout_on, ready_call_back, records,
                   producer, wait_until, notified, set_ready_repeats,
                   set_ready_result, callback_runs>>

\* a call of the public method garbage_collect by some thread while no
\* get is between its with block and its return; an exception it raises
\* reaches that thread and leaves the heap partly drained
GarbageCollect ==
    /\ \A c \in Consumers : pc[c] # "picked"
    /\ \E g \in {garbage_collect(queue, garbage_items)} :
          /\ queue' = g.queue
          /\ garbage_items' = g.garbage
    /\ UNCHANGED <<now, config, aggregator, watchers, message, records, ready_items, producer,
                   consumer, history, lazy>>

\* ---- time ----

Tick ==
    /\ now < TimeLimit
    /\ now' = now + 1
    /\ UNCHANGED <<config, aggregator, watchers, message, records, store, producer,
                   consumer, history,
                   lazy>>

\* ---- RateFilter ----

\* the attributes a watch may carry, and the values of one: Absent (no
\* such key), PyNone (the key holds None, which is not a number) or a
\* natural number
Attrs == {"Count", "Size"}
Absent == -1
PyNone == -3

\* the value of "Iteration" that makes WatchMessage.final true
Finalized == -2

final(watch) == watch.Iteration = Finalized

\* WatchMessage.finalize
finalize(watch) == [watch EXCEPT !.Iteration = Finalized]

\* WatchMessage.set_timeout(sec)
set_timeout(watch, sec) == [watch EXCEPT !.timeout_on = now + sec]

\* a watch nobody has filled
NoWatch ==
    [WatchID |-> 0, Iteration |-> 0, Duration |-> 0, timeout_on |-> NoTime,
     values |-> [a \in Attrs |-> Absent]]

\* WatchMessage(watch): a new dict with the same items; timeout_on is an
\* attribute of the object, which the new one does not get
CloneWatch(watch) == [watch EXCEPT !.timeout_on = NoTime]

\* the object record.watch refers to, and an assignment to its items
Deref(r) == IF r.watch = "clone" THEN r.clone ELSE r.msg
\* an assignment that always goes to the watch the caller logged
Assign_Original(r, watch) == [r EXCEPT !.msg = watch]

Assign(r, watch) ==
    IF r.watch = "clone" THEN [r EXCEPT !.clone = watch]
    ELSE [r EXCEPT !.msg = watch]

\* int(round(value / duration)); round takes a half to the even neighbour
RoundDiv(value, duration) ==
    LET q == value \div duration
        r == value % duration
    IN  IF 2 * r < duration THEN q
        ELSE IF 2 * r > duration THEN q + 1
        ELSE IF q % 2 = 0 THEN q ELSE q + 1

\* RateFilter.extra_timeout_sec when the argument is None
extra_timeout_sec == output_rate_sec \div 2

\* the loop at the head of filter without the test of ignore_nones
IsRelated_NoneCounts(watch) ==
    \E a \in DOMAIN attributes : watch.values[a] # Absent

\* the loop at the head of filter: some tracked attribute is in the watch
\* (and, with ignore_nones, is not None)
IsRelated(watch) ==
    \E a \in DOMAIN attributes :
        /\ watch.values[a] # Absent
        /\ ~ignore_nones \/ watch.values[a] # PyNone

\* RateFilter.__get_increments for one attribute: d.get(attr, 0), then
\* int() of a number and 1 for anything else
Increment(v) == IF v = Absent THEN 0 ELSE IF v >= 0 THEN v ELSE 1

\* RateFilter.__add_intermediate_record stores watch.get(attr), which is
\* None for a key the watch does not have
Snapshot(watch) ==
    [a \in DOMAIN attributes |->
        IF watch.values[a] = Absent THEN PyNone ELSE watch.values[a]]

\* the sum of the increments of the stored snapshots for attribute a
RECURSIVE SumOf(_, _, _)
SumOf(ir, ids, a) ==
    IF ids = {} THEN 0
    ELSE LET id == CHOOSE i \in ids : TRUE
         IN  Increment(ir[id][a]) + SumOf(ir, ids \ {id}, a)

\* RateFilter.__total_attributes_with_intermediate_records
total_attributes_with_intermediate_records ==
    [a \in DOMAIN attributes |->
        attributes[a] + SumOf(intermediate_records, DOMAIN intermediate_records, a)]

\* RateFilter.__reset_namespace(now)
reset_namespace(t) ==
    [watch_id |-> next_watch_id, iteration |-> -1, last_output_time |-> t]

\* what the history keeps of a call of filter that returns result
Emitted(r, rate, result) ==
    [call |-> r.call, watch |-> Deref(r), msg |-> r.msg,
     watch_ref |-> r.watch, original_watch |-> r.original_watch,
     input |-> r.input, arrived |-> r.now, rate |-> rate, result |-> result]

\* filter(record) starts in thread t: the record's watch has WatchID id, is
\* final or not, and carries the given values.  An unrelated record is
\* returned at once; for the others the thread reads the clock, clones the
\* watch if clone_watch is set, and decides rate_record_is_ready.
FilterEnter(t, id, fin, values) ==
    /\ filter_error = "none"
    /\ filter_pc[t] = "idle"
    /\ filter_calls < MaxFiltered
    /\ filter_calls' = filter_calls + 1
    /\ \E watch \in {[WatchID |-> id, Iteration |-> IF fin THEN Finalized ELSE 0,
                      Duration |-> 0, timeout_on |-> NoTime,
                      values |-> values]} :
          IF ~IsRelated(watch)
          THEN /\ emitted' = emitted \cup
                      {Emitted([call |-> filter_calls + 1, msg |-> watch,
                                clone |-> NoWatch, watch |-> "msg",
                                original_watch |-> "none", input |-> watch,
                                now |-> NoTime], FALSE, TRUE)}
               /\ UNCHANGED <<filter_pc, filter_record>>
          ELSE /\ filter_record' = [filter_record EXCEPT ![t] =
                      [call |-> filter_calls + 1, msg |-> watch,
                       clone |-> IF clone_watch THEN CloneWatch(watch)
                                 ELSE NoWatch,
                       watch |-> IF clone_watch THEN "clone" ELSE "msg",
                       original_watch |-> IF clone_watch THEN "msg" ELSE "none",
                       input |-> watch, now |-> now,
                       rate_record_is_ready |->
                           fin /\ now - namespace.last_output_time >= output_rate_sec,
                       was_final |-> FALSE]]
               /\ filter_pc' = [filter_pc EXCEPT ![t] = "fold"]
               /\ UNCHANGED emitted
    /\ UNCHANGED <<now, config, message, records, store, producer, consumer,
                   history, lazy, watchers, filter_config, attributes,
                   intermediate_records, namespace, next_watch_id, restorations>>

\* the thread folds the record into the totals or into the intermediate
\* records, and a final record takes the WatchID of the window
FilterFold(t) ==
    /\ filter_pc[t] = "fold"
    /\ \E r \in {filter_record[t]}, watch \in {Deref(filter_record[t])} :
          /\ attributes' =
                IF final(watch)
                THEN [a \in DOMAIN attributes |->
                         attributes[a] + Increment(watch.values[a])]
                ELSE attributes
          /\ intermediate_records' =
                IF ignore_intermediates THEN intermediate_records
                ELSE IF final(watch)
                THEN [i \in DOMAIN intermediate_records \ {watch.WatchID} |->
                         intermediate_records[i]]
                ELSE [i \in DOMAIN intermediate_records \cup {watch.WatchID} |->
                         IF i = watch.WatchID THEN Snapshot(watch)
                         ELSE intermediate_records[i]]
          /\ filter_record' = [filter_record EXCEPT ![t] =
                Assign(r, [watch EXCEPT !.WatchID =
                              IF final(watch) THEN namespace.watch_id ELSE @])]
    /\ filter_pc' = [filter_pc EXCEPT ![t] = "iterate"]
    /\ UNCHANGED <<now, config, message, records, store, producer, consumer,
                   history, lazy, watchers, filter_config, namespace, next_watch_id,
                   filter_calls, emitted, restorations>>

\* the thread notes whether the watch is final and adds one to the
\* iteration of the window
FilterIterate(t) ==
    /\ filter_pc[t] = "iterate"
    /\ namespace' = [namespace EXCEPT !.iteration = @ + 1]
    /\ filter_record' = [filter_record EXCEPT
                            ![t].was_final = final(Deref(filter_record[t]))]
    /\ filter_pc' = [filter_pc EXCEPT ![t] = "stamp"]
    /\ UNCHANGED <<now, config, message, records, store, producer, consumer,
                   history, lazy, watchers, filter_config, attributes,
                   intermediate_records, next_watch_id, filter_calls, emitted,
                   restorations>>

\* the thread reads the iteration of the window into the watch and writes
\* the rates
FilterStamp(t) ==
    /\ filter_pc[t] = "stamp"
    /\ \E r \in {filter_record[t]}, watch \in {Deref(filter_record[t])},
          totals \in {total_attributes_with_intermediate_records},
          duration \in
          {IF filter_record[t].now - namespace.last_output_time > output_rate_sec
           THEN filter_record[t].now - namespace.last_output_time
           ELSE output_rate_sec} :
          filter_record' = [filter_record EXCEPT ![t] =
              Assign(r, [watch EXCEPT
                           !.Iteration = namespace.iteration,
                           !.values = [a \in Attrs |->
                               IF a \in DOMAIN attributes
                               THEN RoundDiv(totals[a], duration)
                               ELSE watch.values[a]],
                           !.Duration = duration])]
    /\ filter_pc' = [filter_pc EXCEPT ![t] = "finish"]
    /\ UNCHANGED <<now, config, message, records, store, producer, consumer,
                   history, lazy, watchers, filter_config, attributes,
                   intermediate_records, namespace, next_watch_id,
                   filter_calls, emitted, restorations>>

\* the end of filter: the rate record of a window that is over is finalized
\* and a new window starts; any other record is dropped or gets a timeout
FilterFinish(t) ==
    /\ filter_pc[t] = "finish"
    /\ \E r \in {filter_record[t]}, watch \in {Deref(filter_record[t])} :
          IF r.rate_record_is_ready
          THEN /\ emitted' = emitted \cup
                      {Emitted(Assign(r, finalize(watch)), TRUE, TRUE)}
               /\ attributes' = [a \in DOMAIN attributes |-> 0]
               /\ namespace' = reset_namespace(r.now)
               /\ next_watch_id' = next_watch_id + 1
               /\ intermediate_records' = <<>>
          ELSE /\ emitted' = emitted \cup
                      {Emitted(IF drop_records \/ ~r.was_final THEN r
                               ELSE Assign(r, set_timeout(watch,
                                        extra_timeout_sec + output_rate_sec
                                        - (r.now - namespace.last_output_time))),
                               TRUE, ~(drop_records \/ ~r.was_final))}
               /\ UNCHANGED <<attributes, namespace, next_watch_id,
                              intermediate_records>>
    /\ filter_pc' = [filter_pc EXCEPT ![t] = "idle"]
    /\ UNCHANGED <<now, config, message, records, store, producer, consumer,
                   history, lazy, watchers, filter_config, filter_record, filter_calls,
                   restorations>>

\* RestoreOriginalWatcher.filter on a record: x is what is known of it
RestoreOriginal(x) ==
    IF x.original_watch # "none"
    THEN [x EXCEPT !.watch = x.msg, !.watch_ref = x.original_watch,
                   !.original_watch = "none"]
    ELSE x

\* a handler with a RestoreOriginalWatcher gets the record of call n, which
\* the RateFilter of another handler has returned a result for
Restore(n) ==
    /\ \E x \in {y \in restorations : y.of.call = n}
              \cup {[of |-> e, restores |-> 0, was |-> e] :
                       e \in {y \in emitted : y.call = n
                                 /\ \A z \in restorations : z.of.call # n}} :
          /\ x.restores < MaxRestores
          /\ restorations' = (restorations \ {x}) \cup
                {[of |-> RestoreOriginal(x.of), restores |-> x.restores + 1,
                  was |-> x.of]}
    /\ UNCHANGED <<now, config, message, records, store, producer, consumer,
                   history, lazy, watchers, filter_config, attributes,
                   intermediate_records, namespace, next_watch_id, filter_pc,
                   filter_record, filter_calls, emitted>>

\* the state after RateFilter(attributes=keys, output_rate_sec=sec,
\* ignore_nones=inn, ignore_intermediates=ii, drop_records=dr,
\* clone_watch=cw, suffix=None) at time 1; given is FALSE for attributes=None, and then
\* the loop over attributes raises TypeError before the namespace is set
InitFilterWith(given, keys, sec, inn, ii, dr, cw) ==
    /\ output_rate_sec = sec
    /\ ignore_nones = inn
    /\ ignore_intermediates = ii
    /\ drop_records = dr
    /\ clone_watch = cw
    /\ filter_error = IF given THEN "none" ELSE "TypeError"
    /\ attributes = [a \in IF given THEN keys ELSE {} |-> 0]
    /\ intermediate_records = <<>>
    /\ namespace = IF ~given
                   THEN [watch_id |-> 0, iteration |-> 0, last_output_time |-> NoTime]
                   ELSE [watch_id |-> NumMsgs + 1, iteration |-> -1,
                         last_output_time |-> 1]
    /\ next_watch_id = NumMsgs + 2
    /\ filter_pc = [t \in Threads |-> "idle"]
    /\ filter_record = [t \in Threads |->
                           [call |-> 0, msg |-> NoWatch, clone |-> NoWatch,
                            watch |-> "msg", original_watch |-> "none",
                            input |-> NoWatch, now |-> NoTime,
                            rate_record_is_ready |-> FALSE,
                            was_final |-> FALSE]]
    /\ filter_calls = 0
    /\ emitted = {}
    /\ restorations = {}

\* the state after RateFilter(attributes=["Count"], output_rate_sec=sec,
\* ignore_intermediates=ii, drop_records=dr)
InitFilter(sec, ii, dr) == InitFilterWith(TRUE, {"Count"}, sec, TRUE, ii, dr, TRUE)

\* ---- OperationWatcher ----

\* the watched operation has the arguments filter and update, which
\* watch_operations defines fields for, and upsert, which it does not; the
\* result goes to the key of watch_operation_result
DefinedArguments == <<"filter", "update">>
UndefinedArguments == <<"upsert">>
ResultKey == "_result"

\* the values the operation is called with and the value it returns
ArgumentValue(arg) ==
    IF arg = "filter" THEN 1 ELSE IF arg = "update" THEN 2 ELSE 3
ResultValue == 4

\* OperationField.value when it is Unset, and a value that overrides
UnsetValue == -5
Override == 5

\* OperationField(to, cast, value): to is "Unset", "None", "" or a name, and
\* cast is "none" or the name of a function
OperationField(to, cast, value) == [to |-> to, cast |-> cast, value |-> value]

\* cast(value): str and repr return another value, raises raises an
\* Exception
RunCast(cast, value) ==
    [value |-> IF cast = "str" THEN value + 10
               ELSE IF cast = "repr" THEN value + 20 ELSE value,
     raised |-> cast = "raises"]

\* a cast that lets every exception through
Suppress_Nothing(r, previous) == r

\* with contextlib.suppress(Exception): the assignment does not happen and
\* the exception ends there
Suppress(r, previous) ==
    IF r.raised THEN [value |-> previous, raised |-> FALSE] ELSE r

\* cast is not None: value = cast(value) under suppress
CastField(cast, value) ==
    IF cast = "none" THEN [value |-> value, raised |-> FALSE]
    ELSE Suppress(RunCast(cast, value), value)

\* message[key] = value
SetItem(fields, key, value) ==
    [k \in DOMAIN fields \cup {key} |-> IF k = key THEN value ELSE fields[k]]

\* the keys of operation_defined_arguments, in order
DefinedKeys ==
    IF op_config.redefined THEN DefinedArguments \o <<ResultKey>>
    ELSE DefinedArguments

\* the value a defined argument has before its cast
FieldValue(arg) ==
    IF op_config.defined[arg].value = UnsetValue THEN ArgumentValue(arg)
    ELSE op_config.defined[arg].value

\* the first loop of _before_operation over the keys that are left; m is
\* the fields of the message and the exception on its way out, if any
RECURSIVE AddDefined(_, _)
AddDefined(m, keys) ==
    IF keys = <<>> \/ m.raised THEN m
    ELSE IF Head(keys) = op_config.result.to THEN AddDefined(m, Tail(keys))
    ELSE LET added(spec, r) ==
                 [fields |-> IF r.raised \/ (IF spec.to = "Unset" THEN Head(keys)
                                             ELSE spec.to) = ""
                             THEN m.fields
                             ELSE SetItem(m.fields,
                                          IF spec.to = "Unset" THEN Head(keys)
                                          ELSE spec.to, r.value),
                  raised |-> r.raised]
             with(spec) ==
                 added(spec, CastField(spec.cast, FieldValue(Head(keys))))
         IN  AddDefined(with(op_config.defined[Head(keys)]), Tail(keys))

\* the second loop of _before_operation
RECURSIVE AddUndefined(_, _)
AddUndefined(m, args) ==
    IF args = <<>> \/ m.raised \/ op_config.undefined.to = "None" THEN m
    ELSE LET added(spec, r) ==
                 [fields |-> IF r.raised \/ (IF spec.to = "Unset" THEN Head(args)
                                             ELSE spec.to) = ""
                             THEN m.fields
                             ELSE SetItem(m.fields,
                                          IF spec.to = "Unset" THEN Head(args)
                                          ELSE spec.to, r.value),
                  raised |-> r.raised]
             with(spec) ==
                 added(spec, CastField(spec.cast, ArgumentValue(Head(args))))
         IN  AddUndefined(with(op_config.undefined), Tail(args))

\* what a log keeps: its level and the message as it was
Log(level, watch) == [level |-> level, watch |-> watch]

\* _operation up to the call of the operation: the WatchMessage is made
\* and _before_operation adds the arguments to it and emits the first log;
\* an exception that leaves _before_operation leaves _operation too
OpBefore ==
    /\ op_pc = "idle"
    /\ \E m \in {AddUndefined(
                    AddDefined([fields |-> [k \in {"EndTime", "Duration"} |-> PyNone],
                                raised |-> FALSE], DefinedKeys),
                    UndefinedArguments)} :
          IF m.raised
          THEN /\ op_pc' = "done"
               /\ op_outcome' = [kind |-> "raised", value |-> 0, error |-> "CastError"]
               /\ op_message' = [op_message EXCEPT !.fields = m.fields]
               /\ UNCHANGED op_logs
          ELSE /\ op_pc' = "run"
               /\ op_message' = [fields |-> m.fields, final |-> FALSE,
                                 timeout_on |-> now + WatchTimeout]
               /\ op_logs' = Append(op_logs,
                                Log("first", [fields |-> m.fields, final |-> FALSE,
                                              timeout_on |-> now + WatchTimeout]))
               /\ UNCHANGED op_outcome
    /\ UNCHANGED <<now, queues, aggregator, cursors, standalone, op_config, op_result>>

\* an _operation whose try has no finally clause: an operation that raises
\* leaves _operation at once
OpRun_NoFinally ==
    /\ op_pc = "run"
    /\ op_result' = IF op_config.raises
                    THEN [kind |-> "raised", value |-> 0, error |-> "OperationFailure"]
                    ELSE [kind |-> "returned", value |-> ResultValue, error |-> ""]
    /\ IF op_config.raises
       THEN /\ op_pc' = "done"
            /\ op_outcome' = [kind |-> "raised", value |-> 0,
                              error |-> "OperationFailure"]
            /\ UNCHANGED op_message
       ELSE /\ op_pc' = "after"
            /\ op_message' = [op_message EXCEPT
                                 !.fields = SetItem(SetItem(@, "Duration", 0),
                                                    "EndTime", now)]
            /\ UNCHANGED op_outcome
    /\ UNCHANGED <<now, queues, aggregator, cursors, standalone, op_config, op_logs>>

\* the operation runs: it returns its result or raises, and the finally
\* clause writes Duration and EndTime
OpRun ==
    /\ op_pc = "run"
    /\ op_pc' = "after"
    /\ op_result' = IF op_config.raises
                    THEN [kind |-> "raised", value |-> 0, error |-> "OperationFailure"]
                    ELSE [kind |-> "returned", value |-> ResultValue, error |-> ""]
    /\ op_message' = [op_message EXCEPT
                         !.fields = SetItem(SetItem(@, "Duration", 0),
                                            "EndTime", now)]
    /\ UNCHANGED <<now, queues, aggregator, cursors, standalone, op_config, op_outcome, op_logs>>

\* the result_field _after_operation ends with: the redefinition of the
\* result key in the defined arguments, if there is one
ResultField ==
    IF op_config.result.to # "" /\ op_config.redefined
    THEN [op_config.defined[ResultKey] EXCEPT
             !.to = IF @ = "Unset" THEN op_config.result.to ELSE @]
    ELSE op_config.result

\* result_value in _after_operation: the cast of watch_operation_result,
\* then the cast of the redefinition, both on result
ResultCasts(result) ==
    LET second(r) ==
            IF r.raised \/ ~(op_config.result.to # "" /\ op_config.redefined)
               \/ ResultField.cast = "none"
            THEN r
            ELSE Suppress(RunCast(ResultField.cast, result), r.value)
    IN  second(CastField(op_config.result.cast, result))

\* _after_operation in the finally clause, and the end of _operation: the
\* result goes into the message, which is finalized and logged; the caller
\* gets the result, or the exception of the operation, or the exception
\* that has left _after_operation
OpAfter ==
    /\ op_pc = "after"
    /\ op_pc' = "done"
    /\ \E r \in {ResultCasts(IF op_result.kind = "raised" THEN PyNone
                             ELSE op_result.value)} :
          IF r.raised
          THEN /\ op_outcome' = [kind |-> "raised", value |-> 0, error |-> "CastError"]
               /\ UNCHANGED <<op_message, op_logs>>
          ELSE /\ op_outcome' = op_result
               /\ \E m \in {[op_message EXCEPT
                               !.fields = IF ResultField.to = "" THEN @
                                          ELSE SetItem(@, ResultField.to, r.value),
                               !.final = TRUE]} :
                     /\ op_message' = m
                     /\ op_logs' = Append(op_logs, Log("final", m))
    /\ UNCHANGED <<now, queues, aggregator, cursors, standalone, op_config, op_result>>

\* no watched operation is under way
NoOperation ==
    /\ op_pc = "off"
    /\ op_config = [defined |-> [k \in {} |-> OperationField("Unset", "none", UnsetValue)],
                    undefined |-> OperationField("", "none", UnsetValue),
                    result |-> OperationField(ResultKey, "none", UnsetValue),
                    redefined |-> FALSE, raises |-> FALSE]
    /\ op_message = [fields |-> <<>>, final |-> FALSE, timeout_on |-> NoTime]
    /\ op_result = [kind |-> "none", value |-> 0, error |-> ""]
    /\ op_outcome = [kind |-> "none", value |-> 0, error |-> ""]
    /\ op_logs = <<>>

\* ---- WatchCursor ----

\* the cursor, its logs and what is remembered of its calls, as one value
\* that next, close and rewind take and return
World ==
    [cursor |-> cursor, logs |-> cursor_log, finalized |-> finalized,
     closed |-> closed]

\* the WatchMessage next makes for a cursor that has no _watch_log
NewWatchLog ==
    [Iteration |-> 0, Duration |-> 0, MatchedCount |-> 0, EndTime |-> PyNone,
     timeout_on |-> NoTime]

\* a cursor that has not been iterated over
NewCursor ==
    [data |-> 0, retrieved |-> 0, killed |-> FALSE,
     has_watch_log |-> FALSE, watch_log |-> NewWatchLog, record_id |-> 0,
     next_is_in_progress |-> FALSE, skipped_finalization |-> FALSE]

\* log(self._watch_name, self._watch_log, level)
CursorLog(w, level) ==
    [w EXCEPT !.logs = Append(@, [level |-> level, watch |-> w.cursor.watch_log,
                                  record_id |-> w.cursor.record_id])]

\* the body of close when no next is in progress: the record, if there is
\* one and it is not final, is finalized and logged
CloseFinalize(w) ==
    IF w.cursor.has_watch_log /\ ~final(w.cursor.watch_log)
    THEN CursorLog([w EXCEPT !.cursor.watch_log = finalize(@),
                             !.finalized = Append(@, [record_id |-> w.cursor.record_id,
                                                      by |-> "close"])],
                   "final")
    ELSE w

\* a close that finalizes whether or not next is in progress
Close_InsideNextToo(w) ==
    CloseFinalize([w EXCEPT !.cursor.killed = TRUE,
                            !.closed = IF w.cursor.has_watch_log
                                       THEN @ \cup {w.cursor.record_id} ELSE @])

\* WatchCursor.close: Cursor.close kills the cursor; inside next the
\* finalization is left to next, and otherwise it happens here
Close(w) ==
    LET killed(k) ==
            IF k.cursor.next_is_in_progress
            THEN [k EXCEPT !.cursor.skipped_finalization = TRUE]
            ELSE CloseFinalize(k)
    IN  killed([w EXCEPT !.cursor.killed = TRUE,
                         !.closed = IF w.cursor.has_watch_log
                                    THEN @ \cup {w.cursor.record_id} ELSE @])

\* Cursor.next of pymongo: a buffered document is returned; a killed cursor
\* with none stops the iteration; otherwise the server is asked, which
\* fails (error) or sends a batch, the last one (exhausted) or not, and the
\* cursor closes itself on a failure and after the last batch
SuperNext(w, error, batch, exhausted) ==
    IF w.cursor.data > 0
    THEN [w |-> [w EXCEPT !.cursor.data = @ - 1], result |-> "document"]
    ELSE IF w.cursor.killed THEN [w |-> w, result |-> "StopIteration"]
    ELSE IF error THEN [w |-> Close(w), result |-> "error"]
    ELSE LET answered(f) ==
                 IF batch > 0
                 THEN [w |-> [f EXCEPT !.cursor.data = @ - 1],
                       result |-> "document"]
                 ELSE [w |-> f, result |-> "StopIteration"]
             fetched(f) == answered(IF exhausted THEN Close(f) ELSE f)
         IN  fetched([w EXCEPT !.cursor.data = batch,
                               !.cursor.retrieved = @ + batch])

\* the head of next: a cursor without a _watch_log gets one, and the call
\* is marked as in progress
NextBegin(w) ==
    IF w.cursor.has_watch_log
    THEN [w EXCEPT !.cursor.next_is_in_progress = TRUE]
    ELSE [w EXCEPT !.cursor.has_watch_log = TRUE,
                   !.cursor.watch_log = NewWatchLog,
                   !.cursor.record_id = @ + 1,
                   !.cursor.next_is_in_progress = TRUE]

\* the finally clause of next for a record that was not final before the
\* call: the record is updated, finalized if close has left that to next,
\* and logged if it is final or documents have been retrieved
NextUpdate(w, level, previous_retrieved, end, elapsed) ==
    LET logged(u, finalize_) ==
            IF finalize_ \/ ~watch_emit_on_new_retrieves
               \/ previous_retrieved < u.cursor.retrieved
            THEN CursorLog(u, IF finalize_ THEN "final" ELSE level)
            ELSE u
        updated(u) ==
            IF u.cursor.skipped_finalization
            THEN logged([u EXCEPT !.cursor.skipped_finalization = FALSE,
                                  !.cursor.watch_log = finalize(@),
                                  !.finalized = Append(@, [record_id |-> u.cursor.record_id,
                                                           by |-> "next"])],
                        TRUE)
            ELSE logged(u, FALSE)
    IN  updated([w EXCEPT !.cursor.watch_log =
                    [@ EXCEPT !.Duration = @ + elapsed,
                              !.MatchedCount = w.cursor.retrieved,
                              !.Iteration = @ + 1,
                              !.timeout_on = end + WatchTimeout]])

\* next from the return of Cursor.next on: EndTime is written if a
\* document came, the mark of the call is removed, and the finally clause
\* does its work if the record was not final when the call began
NextEnd(s, final_state_before_next, level, previous_retrieved, end, elapsed) ==
    LET finished(w) ==
            IF final_state_before_next THEN w
            ELSE NextUpdate(w, level, previous_retrieved, end, elapsed)
    IN  finished([s.w EXCEPT
                     !.cursor.watch_log.EndTime =
                         IF s.result = "document" THEN end ELSE @,
                     !.cursor.next_is_in_progress = FALSE])

\* the variables take the values of w
Becomes(w) ==
    /\ cursor' = w.cursor
    /\ cursor_log' = w.logs
    /\ finalized' = w.finalized
    /\ closed' = w.closed

\* WatchCursor.next, which takes some time; closes tells whether close() is
\* called on the cursor from outside while Cursor.next runs
CursorNextWith(closes, error, batch, exhausted, elapsed) ==
    /\ calls.next < MaxNexts
    /\ now + elapsed <= TimeLimit
    /\ now' = now + elapsed
    /\ calls' = [calls EXCEPT !.next = @ + 1]
    /\ \E b \in {NextBegin(World)} :
       \E s \in {SuperNext(b, error, batch, exhausted)} :
          Becomes(NextEnd(IF closes THEN [s EXCEPT !.w = Close(@)] ELSE s,
                          final(b.cursor.watch_log),
                          IF cursor.has_watch_log THEN "update" ELSE "first",
                          cursor.retrieved, now + elapsed, elapsed))
    /\ UNCHANGED <<queues, aggregator, operation, standalone,
                   watch_emit_on_new_retrieves>>

\* WatchCursor.next on a cursor nobody else holds
CursorNext(error, batch, exhausted, elapsed) ==
    CursorNextWith(FALSE, error, batch, exhausted, elapsed)

\* WatchCursor.close, called by the user of the cursor
CursorClose ==
    /\ calls.close < MaxCloses
    /\ calls' = [calls EXCEPT !.close = @ + 1]
    /\ Becomes(Close(World))
    /\ UNCHANGED <<now, queues, aggregator, operation, standalone,
                   watch_emit_on_new_retrieves>>

\* WatchCursor.rewind: Cursor.rewind closes the cursor and makes it new,
\* and the _watch_log is deleted
CursorRewind ==
    /\ calls.rewind < MaxRewinds
    /\ calls' = [calls EXCEPT !.rewind = @ + 1]
    /\ \E w \in {Close(World)} :
          Becomes([w EXCEPT !.cursor.data = 0, !.cursor.retrieved = 0,
                            !.cursor.killed = FALSE,
                            !.cursor.has_watch_log = FALSE,
                            !.cursor.watch_log = NewWatchLog])
    /\ UNCHANGED <<now, queues, aggregator, operation, standalone,
                   watch_emit_on_new_retrieves>>

\* a new cursor, with watch_emit_on_new_retrieves set to emit
NewCursorWith(emit) ==
    /\ cursor = NewCursor
    /\ watch_emit_on_new_retrieves = emit
    /\ cursor_log = <<>>
    /\ finalized = <<>>
    /\ closed = {}
    /\ calls = [next |-> 0, close |-> 0, rewind |-> 0]

\* ---- the stand-alone WatchCursor of pymongowatch.py ----

MaxCursors == 3       \* cursors created while logs are followed
StoreLimit == 2       \* the maxlen of _watch_all_logs (10000 in the module)
NumFollowers == 1     \* generators of watch_follow_logs
MaxFetches == 10      \* calls of next on a cursor nobody follows
FollowFetches == 1    \* calls of next on a cursor while logs are followed
FollowTime == 3       \* how far time goes while logs are followed
MsPerSec == 1000      \* wait_time_ms is in milliseconds, the clock in seconds

Followers == 1..NumFollowers

\* somebody follows the logs, or will
Following == \E f \in Followers : followers[f].pc # "off"

\* how many cursors a run makes, how many calls of next a cursor gets and
\* how far its time goes
CursorLimit == IF Following THEN MaxCursors ELSE 1
FetchLimit == IF Following THEN FollowFetches ELSE MaxFetches
FetchTimeLimit == IF Following THEN FollowTime ELSE MaxFetches * MaxElapsed + 1

\* WatchCursor.watch_log_dict: the log made of the attributes of cursor c
\* (the query and the collection, which never change, are left out)
watch_log_dict(c) ==
    [create_time |-> c.create_time,
     last_fetched_time |-> c.last_fetched_time,
     fetched_count |-> c.fetched_count,
     tried_fetched_count |-> c.tried_count,
     fetch_time |-> c.fetch_time]

\* the attributes __init__ gives a cursor, and its __watch_log
NewWatchCursor(enable_all_logs) ==
    LET made(c) ==
            [create_time |-> c.create_time,
             last_fetched_time |-> c.last_fetched_time,
             enable_all_logs |-> enable_all_logs,
             tried_count |-> c.tried_count,
             fetched_count |-> c.fetched_count,
             fetch_time |-> c.fetch_time,
             log |-> watch_log_dict(c)]
    IN  made([create_time |-> now, last_fetched_time |-> PyNone,
              tried_count |-> 0, fetched_count |-> 0, fetch_time |-> 0])

\* deque.append on a deque with a maxlen: a full deque drops its first item
DequeAppend(d, x) ==
    IF Len(d) >= StoreLimit THEN Append(Tail(d), x) ELSE Append(d, x)

\* notify_all on _watch_new_log_condition: every follower inside wait
\* is woken
NotifyFollowers(fs) ==
    [f \in Followers |->
        IF fs[f].pc = "waiting" THEN [fs[f] EXCEPT !.notified = TRUE] ELSE fs[f]]

\* the follower's deque is in _watch_followers
Registered(f) == followers[f].pc \notin {"off", "new"}

\* WatchCursor(...): the cursor is made, its __watch_log goes into
\* _watch_all_logs if enable_all_logs is set and into the deque of every
\* follower, and the followers are notified
CreateCursor(enable_all_logs) ==
    /\ Len(watch_cursors) < CursorLimit
    /\ watch_cursors' = Append(watch_cursors, NewWatchCursor(enable_all_logs))
    /\ all_logs' = IF enable_all_logs
                   THEN DequeAppend(all_logs, Len(watch_cursors) + 1)
                   ELSE all_logs
    /\ followers' =
          IF \E f \in Followers : Registered(f)
          THEN NotifyFollowers(
                  [f \in Followers |->
                      IF Registered(f)
                      THEN [followers[f] EXCEPT
                               !.queue = Append(@, Len(watch_cursors) + 1)]
                      ELSE followers[f]])
          ELSE followers
    /\ fetches' = Append(fetches, [calls |-> 0, returns |-> 0, time |-> 0])
    /\ since_clear' = Append(since_clear, Len(watch_cursors) + 1)
    /\ UNCHANGED <<now, queues, aggregator, operation, cursors, wait_time_ms,
                   followed>>

\* a next that counts a fetch whether or not Cursor.next has raised
Fetch_CountsAlways(c, start, raises, elapsed) ==
    [c EXCEPT !.last_fetched_time = start,
              !.tried_count = @ + 1,
              !.fetch_time = @ + elapsed,
              !.fetched_count = @ + 1]

\* what next does to the attributes of cursor c: Cursor.next takes elapsed
\* and returns a document or raises
Fetch(c, start, raises, elapsed) ==
    [c EXCEPT !.last_fetched_time = start,
              !.tried_count = @ + 1,
              !.fetch_time = @ + elapsed,
              !.fetched_count = IF raises THEN @ ELSE @ + 1]

\* a next that leaves the __watch_log as __init__ made it
StoreLog_Never(c) == c

\* the outer finally clause of next: the __watch_log is brought up to date
\* if enable_all_logs is set
StoreLog(c) ==
    IF c.enable_all_logs THEN [c EXCEPT !.log = watch_log_dict(c)] ELSE c

\* WatchCursor.next on cursor id
WatchNext(id, raises, elapsed) ==
    /\ id \in DOMAIN watch_cursors
    /\ fetches[id].calls < FetchLimit
    /\ now + elapsed <= FetchTimeLimit
    /\ now' = now + elapsed
    /\ watch_cursors' =
          [watch_cursors EXCEPT
              ![id] = StoreLog(Fetch(@, now, raises, elapsed))]
    /\ fetches' = [fetches EXCEPT
                      ![id] = [calls |-> @.calls + 1,
                               returns |-> IF raises THEN @.returns
                                           ELSE @.returns + 1,
                               time |-> @.time + elapsed]]
    /\ UNCHANGED <<queues, aggregator, operation, cursors, all_logs, followers,
                   wait_time_ms, followed, since_clear>>

\* list(WatchCursor.watch_all_logs(log_format=dict)): the stored logs as
\* they are now, each with the cursor it is the __watch_log of
AllLogs == [i \in DOMAIN all_logs |->
               [cursor |-> all_logs[i], log |-> watch_cursors[all_logs[i]].log]]

\* WatchCursor.watch_clear_logs
WatchClearLogs ==
    /\ all_logs' = <<>>
    /\ since_clear' = <<>>
    /\ UNCHANGED <<now, queues, aggregator, operation, cursors, watch_cursors,
                   followers, wait_time_ms, followed, fetches>>

\* a test that lets every log of the deque through at once
IsOldEnough_Always(id) == TRUE

\* the test of fetch_available_logs: the log was created more than
\* wait_time_ms milliseconds ago
IsOldEnough(id) ==
    (now - watch_cursors[id].log.create_time) * MsPerSec > wait_time_ms

\* fetch_available_logs of watch_follow_logs: the logs at the head of the
\* deque that are older than wait_time_ms
RECURSIVE fetch_available_logs(_, _)
fetch_available_logs(logs_queue, result) ==
    IF logs_queue = <<>> THEN [result |-> result, queue |-> logs_queue]
    ELSE IF IsOldEnough(Head(logs_queue))
    THEN fetch_available_logs(Tail(logs_queue), Append(result, Head(logs_queue)))
    ELSE [result |-> result, queue |-> logs_queue]

\* the timeout of the wait: what the first log of the deque still lacks,
\* or None
FollowTimeout(logs_queue) ==
    IF logs_queue = <<>> THEN PyNone
    ELSE LET rest == wait_time_ms \div MsPerSec
                        - (now - watch_cursors[logs_queue[1]].log.create_time)
         IN  IF rest > 0 THEN rest ELSE 0

\* the first next() of the generator: its deque goes into _watch_followers
FollowStart(f) ==
    /\ followers[f].pc = "new"
    /\ followers' = [followers EXCEPT ![f].pc = "fetch",
                                      ![f].start = Len(watch_cursors)]
    /\ UNCHANGED <<now, queues, aggregator, operation, cursors, watch_cursors,
                   all_logs, wait_time_ms, followed, fetches,
                   since_clear>>

\* with the condition held: the available logs are taken, or the follower
\* waits
FollowFetch(f) ==
    /\ followers[f].pc = "fetch"
    /\ \E r \in {fetch_available_logs(followers[f].queue, <<>>)} :
          followers' =
             [followers EXCEPT ![f] =
                 IF r.result # <<>>
                 THEN [@ EXCEPT !.pc = "yield", !.logs = r.result,
                                !.queue = r.queue]
                 ELSE [@ EXCEPT !.pc = "waiting", !.notified = FALSE,
                                !.wait_until =
                                    IF FollowTimeout(r.queue) = PyNone THEN PyNone
                                    ELSE now + FollowTimeout(r.queue)]]
    /\ UNCHANGED <<now, queues, aggregator, operation, cursors, watch_cursors,
                   all_logs, wait_time_ms, followed, fetches,
                   since_clear>>

\* wait returns: the follower was notified or the timeout is over
FollowWake(f) ==
    /\ followers[f].pc = "waiting"
    /\ \/ followers[f].notified
       \/ followers[f].wait_until # PyNone /\ now >= followers[f].wait_until
    /\ followers' = [followers EXCEPT ![f].pc = "fetch", ![f].notified = FALSE,
                                      ![f].wait_until = PyNone]
    /\ UNCHANGED <<now, queues, aggregator, operation, cursors, watch_cursors,
                   all_logs, wait_time_ms, followed, fetches,
                   since_clear>>

\* the generator yields the next of the logs it has taken (log_format=dict)
FollowYield(f) ==
    /\ followers[f].pc = "yield"
    /\ followed' = Append(followed,
                     [follower |-> f, cursor |-> Head(followers[f].logs),
                      at |-> now,
                      log |-> watch_cursors[Head(followers[f].logs)].log,
                      fetches |-> fetches[Head(followers[f].logs)]])
    /\ followers' = [followers EXCEPT
                        ![f].logs = Tail(@),
                        ![f].pc = IF Len(followers[f].logs) = 1 THEN "fetch"
                                  ELSE "yield"]
    /\ UNCHANGED <<now, queues, aggregator, operation, cursors, watch_cursors,
                   all_logs, wait_time_ms, fetches, since_clear>>

\* time passes while the logs are followed
WatchTick ==
    /\ now < FollowTime
    /\ now' = now + 1
    /\ UNCHANGED <<queues, aggregator, watchers>>

\* a follower that is not there (pc "off") or has not run yet ("new")
Follower(position) ==
    [pc |-> position, queue |-> <<>>, logs |-> <<>>, wait_until |-> PyNone,
     notified |-> FALSE, start |-> 0]

\* no stand-alone cursor has been made since watch_clear_logs; the
\* followers, if there are to be any, wait for wait_ms each
NoWatchCursor(following, wait_ms) ==
    /\ watch_cursors = <<>>
    /\ all_logs = <<>>
    /\ followers = [f \in Followers |-> Follower(IF following THEN "new" ELSE "off")]
    /\ wait_time_ms = wait_ms
    /\ followed = <<>>
    /\ fetches = <<>>
    /\ since_clear = <<>>

\* no watcher is at work
IdleWatchers == NoOperation /\ NewCursorWith(TRUE) /\ NoWatchCursor(FALSE, 0)

\* ---- specification ----

\* the state after WatchQueue(maxsize, default_delay_sec=...,
\* force_default_delay=..., garbage_collection_limit=...): the consumers
\* of the set active are about to call get, and stop tells whether
\* somebody will enqueue the sentinel (QueueListener.stop)
InitWith(ms, dd, fd, gl, active, stop) ==
    /\ now = 1
    /\ maxsize = ms
    /\ default_delay_sec = dd
    /\ force_default_delay = fd
    /\ garbage_collection_limit = gl
    /\ ready = [w \in Msgs |-> FALSE]
    /\ timeout_on = [w \in Msgs |-> NoTime]
    /\ ready_call_back = [w \in Msgs |-> NoRec]
    /\ reay_call_back = [w \in Msgs |-> FALSE]
    /\ records = <<>>
    /\ queue = <<>>
    /\ ready_items = <<>>
    /\ garbage_items = {}
    /\ stop_pc = IF stop THEN "idle" ELSE "off"
    /\ put_result = [by |-> 0, result |-> "none"]
    /\ put_pc = [p \in Producers |-> "idle"]
    /\ pc = [c \in Consumers |-> IF c \in active THEN "idle" ELSE "off"]
    /\ queue_ts = [c \in Consumers |-> NoTime]
    /\ queue_item = [c \in Consumers |-> NONE]
    /\ ready_ts = [c \in Consumers |-> NoTime]
    /\ ready_item = [c \in Consumers |-> NONE]
    /\ wait_until = [c \in Consumers |-> NoTime]
    /\ notified = [c \in Consumers |-> FALSE]
    /\ delivered = {}
    /\ set_ready_repeats = 0
    /\ set_ready_result = [b \in BOOLEAN |-> "unset"]
    /\ callback_runs = [w \in Msgs |-> 0]
    /\ lazy_queue = <<>>
    /\ lazy_garbage = {}
    /\ lazy_queue_ts = [c \in Consumers |-> NoTime]
    /\ lazy_queue_item = [c \in Consumers |-> NONE]
    /\ tied = FALSE

\* setup_queue_handler: one WatchQueue with its defaults and one
\* QueueListener thread
Init ==
    /\ InitWith(0, 0, FALSE, GcLimit, {1}, TRUE)
    /\ twin = "off"
    /\ InitFilter(RateWindow, TRUE, FALSE)
    /\ IdleWatchers

Next ==
    \/ Tick
    \/ \E w \in Msgs, d \in 1..MaxDelay : SetTimeout(w, d)
    \/ \E w \in Msgs : SetReady(w)
    \/ \E p \in Producers : Put(p)
    \/ \E c \in Consumers : GetScan(c)
    \/ \E c \in Consumers : GetReturn(c)

Spec == Init /\ [][Next]_vars

\* the same queue read by NumConsumers threads
InitConsumers ==
    /\ InitWith(0, 0, FALSE, GcLimit, Consumers, FALSE)
    /\ twin = "off"
    /\ InitFilter(RateWindow, TRUE, FALSE)
    /\ IdleWatchers
SpecConsumers == InitConsumers /\ [][Next]_vars

\* a queue with a capacity: WatchQueue(maxsize=Capacity)
Capacity == 2
InitCapacity ==
    /\ InitWith(Capacity, 0, FALSE, GcLimit, {1}, FALSE)
    /\ twin = "off"
    /\ InitFilter(RateWindow, TRUE, FALSE)
    /\ IdleWatchers
SpecCapacity == InitCapacity /\ [][Next]_vars

\* the same queue with its producer threads interleaved inside put_nowait
NextProducers ==
    \/ Tick
    \/ \E w \in Msgs, d \in 1..MaxDelay : SetTimeout(w, d)
    \/ \E w \in Msgs : SetReady(w)
    \/ \E p \in Producers : PutCheck(p)
    \/ \E p \in Producers : PutPush(p)
    \/ \E c \in Consumers : GetScan(c)
    \/ \E c \in Consumers : GetReturn(c)
InitProducers ==
    /\ InitWith(Capacity, 0, FALSE, GcLimit, {1}, TRUE)
    /\ twin = "off"
    /\ InitFilter(RateWindow, TRUE, FALSE)
    /\ IdleWatchers
SpecProducers == InitProducers /\ [][NextProducers]_vars

\* a queue that gives a timeout to the items: WatchQueue(default_delay_sec=
\* DefaultDelay), with and without force_default_delay
DefaultDelay == 1
InitDelay ==
    /\ \E fd \in BOOLEAN : InitWith(0, DefaultDelay, fd, GcLimit, {1}, FALSE)
    /\ twin = "off"
    /\ InitFilter(RateWindow, TRUE, FALSE)
    /\ IdleWatchers
SpecDelay == InitDelay /\ [][Next]_vars

\* two queues get the same calls, and a thread may call garbage_collect
\* on the first one only
InitCollect ==
    /\ InitWith(0, CollectDelay, FALSE, GcLimit, {1}, FALSE)
    /\ twin = "same"
    /\ InitFilter(RateWindow, TRUE, FALSE)
    /\ IdleWatchers
NextCollect == Next \/ GarbageCollect
SpecCollect == InitCollect /\ [][NextCollect]_vars

\* a RateFilter on the handler the threads log through
InitRate ==
    /\ InitWith(0, 0, FALSE, GcLimit, {}, FALSE)
    /\ twin = "off"
    /\ \E ii \in BOOLEAN, dr \in BOOLEAN : InitFilter(RateWindow, ii, dr)
    /\ IdleWatchers

NextRate ==
    \/ Tick
    \/ \E t \in Threads, id \in Msgs, fin \in BOOLEAN,
          count \in {Absent} \cup (1..MaxCount) :
          FilterEnter(t, id, fin, [a \in Attrs |->
                                     IF a = "Count" THEN count ELSE Absent])
    \/ \E t \in Threads : FilterFold(t)
    \/ \E t \in Threads : FilterIterate(t)
    \/ \E t \in Threads : FilterStamp(t)
    \/ \E t \in Threads : FilterFinish(t)

SpecRate == InitRate /\ [][NextRate]_vars

\* one thread logs to a RateFilter built with attributes=None or with both
\* attributes, and a second handler restores the records it has filtered
InitRateSeq ==
    /\ InitWith(0, 0, FALSE, GcLimit, {}, FALSE)
    /\ twin = "off"
    /\ \E given \in BOOLEAN, inn \in BOOLEAN, ii \in BOOLEAN,
          dr \in BOOLEAN, cw \in BOOLEAN :
          InitFilterWith(given, Attrs, RateWindow, inn, ii, dr, cw)
    /\ IdleWatchers

NextRateSeq ==
    \/ Tick
    \/ \E id \in Msgs, fin \in BOOLEAN, count \in {Absent} \cup (1..MaxCount),
          size \in {Absent, PyNone, MaxCount} :
          FilterEnter(1, id, fin, [a \in Attrs |->
                                     IF a = "Count" THEN count ELSE size])
    \/ FilterFold(1)
    \/ FilterIterate(1)
    \/ FilterStamp(1)
    \/ FilterFinish(1)
    \/ \E n \in 1..MaxFiltered : Restore(n)

SpecRateSeq == InitRateSeq /\ [][NextRateSeq]_vars

\* the field specifications an operation may be watched with
DefinedFields ==
    {OperationField(to, cast, value) :
        to \in {"Unset", ""}, cast \in {"none", "str", "raises"},
        value \in {UnsetValue, Override}}
ResultFields ==
    {OperationField(to, cast, UnsetValue) :
        to \in {"Unset", ""}, cast \in {"none", "repr", "raises"}}
UndefinedFields ==
    {OperationField(to, cast, UnsetValue) :
        to \in {"None", "Unset", ""}, cast \in {"none", "str", "raises"}}

\* one call of a watched operation, with any of the field specifications
InitOperation ==
    /\ InitWith(0, 0, FALSE, GcLimit, {}, FALSE)
    /\ twin = "off"
    /\ InitFilter(RateWindow, TRUE, FALSE)
    /\ op_pc = "idle"
    /\ \E f \in DefinedFields, u \in DefinedFields, r \in ResultFields,
          un \in UndefinedFields, cast \in {"none", "str", "raises"},
          redefined \in BOOLEAN, raises \in BOOLEAN :
          op_config = [defined |-> [k \in {"filter", "update", ResultKey} |->
                                       IF k = "filter" THEN f
                                       ELSE IF k = "update" THEN u ELSE r],
                       undefined |-> un,
                       result |-> OperationField(ResultKey, cast, UnsetValue),
                       redefined |-> redefined, raises |-> raises]
    /\ op_message = [fields |-> <<>>, final |-> FALSE, timeout_on |-> NoTime]
    /\ op_result = [kind |-> "none", value |-> 0, error |-> ""]
    /\ op_outcome = [kind |-> "none", value |-> 0, error |-> ""]
    /\ op_logs = <<>>
    /\ NewCursorWith(TRUE)
    /\ NoWatchCursor(FALSE, 0)

NextOperation == OpBefore \/ OpRun \/ OpAfter

SpecOperation == InitOperation /\ [][NextOperation]_vars

\* one cursor that is iterated over, closed and rewound
InitCursor ==
    /\ InitWith(0, 0, FALSE, GcLimit, {}, FALSE)
    /\ twin = "off"
    /\ InitFilter(RateWindow, TRUE, FALSE)
    /\ NoOperation
    /\ \E emit \in BOOLEAN : NewCursorWith(emit)
    /\ NoWatchCursor(FALSE, 0)

NextCursor ==
    \/ \E error \in BOOLEAN, batch \in 0..MaxBatch, exhausted \in BOOLEAN,
          elapsed \in 0..MaxElapsed :
          CursorNext(error, batch, exhausted, elapsed)
    \/ CursorClose
    \/ CursorRewind

SpecCursor == InitCursor /\ [][NextCursor]_vars

\* a cursor that a second holder may close at any time, also while next
\* is running
NextCursorShared ==
    \/ \E closes \in BOOLEAN, error \in BOOLEAN, batch \in 0..MaxBatch,
          exhausted \in BOOLEAN, elapsed \in 0..MaxElapsed :
          CursorNextWith(closes, error, batch, exhausted, elapsed)
    \/ CursorClose
    \/ CursorRewind
SpecCursorShared == InitCursor /\ [][NextCursorShared]_vars

\* one stand-alone WatchCursor and the calls of next on it
InitFetch ==
    /\ InitWith(0, 0, FALSE, GcLimit, {}, FALSE)
    /\ twin = "off"
    /\ InitFilter(RateWindow, TRUE, FALSE)
    /\ NoOperation
    /\ NewCursorWith(TRUE)
    /\ NoWatchCursor(FALSE, 0)

NextFetch ==
    \/ \E enable_all_logs \in BOOLEAN : CreateCursor(enable_all_logs)
    \/ \E id \in 1..MaxCursors, raises \in BOOLEAN, elapsed \in 0..MaxElapsed :
          WatchNext(id, raises, elapsed)

SpecFetch == InitFetch /\ [][NextFetch]_vars

\* stand-alone WatchCursors are made and iterated over while their logs
\* are followed and listed
InitFollow ==
    /\ InitWith(0, 0, FALSE, GcLimit, {}, FALSE)
    /\ twin = "off"
    /\ InitFilter(RateWindow, TRUE, FALSE)
    /\ NoOperation
    /\ NewCursorWith(TRUE)
    /\ \E wait_sec \in 0..1 : NoWatchCursor(TRUE, wait_sec * MsPerSec)

NextFollow ==
    \/ WatchTick
    \/ \E enable_all_logs \in BOOLEAN : CreateCursor(enable_all_logs)
    \/ \E id \in 1..MaxCursors : WatchNext(id, FALSE, 0)
    \/ WatchClearLogs
    \/ \E f \in Followers : FollowStart(f)
    \/ \E f \in Followers : FollowFetch(f)
    \/ \E f \in Followers : FollowWake(f)
    \/ \E f \in Followers : FollowYield(f)

SpecFollow == InitFollow /\ [][NextFollow]_vars

\* ---- properties ----

\* the deliveries of records of message w
DeliveriesOf(w) == {d \in delivered : WatchOf(d.item) = w}

\* C1: exactly-once delivery: get returns at most one record for any one
\* WatchMessage, whatever the puts, set_ready calls and expiries
C1_ExactlyOnce == \A w \in Msgs : Cardinality(DeliveriesOf(w)) <= 1

\* C2: superseding: get never returns a record of a message once a newer
\* record of the same message has been enqueued
C2_NeverOlder == \A d \in delivered : ~d.stale

\* C3: get only returns records that are ready or timed out: every record
\* it returns was finalized, or its deadline was not later than the return
C3_ReadyOrTimedOut ==
    \A d \in delivered : WatchOf(d.item) # NoMsg => d.final \/ d.due

\* C6: no record is returned to two callers
C6_OneCaller ==
    \A d1, d2 \in delivered :
        d1.item = d2.item /\ WatchOf(d1.item) # NoMsg => d1.by = d2.by

\* C4: immediate delivery on finalize: once set_ready has put a record into
\* ready_items, no consumer sleeps on in wait() for a deadline: every
\* waiting consumer has been notified, and a pass of get that finds a
\* record in ready_items does not go to wait()
C4_FinalizedIsOffered ==
    /\ [](\A c \in Consumers :
            pc[c] = "wait" /\ Len(ready_items) > 0 => notified[c])
    /\ [][\A c \in Consumers :
            pc[c] # "wait" /\ pc'[c] = "wait" => Len(ready_items) = 0]_vars

\* a record was enqueued not ready with a deadline in the future (its heap
\* entry is still there), then its message was set ready and enqueued
\* again, and get has returned the record before the deadline
C4_Witness ==
    \E d \in delivered :
        /\ d.path = "ready" /\ d.final /\ ~d.due
        /\ now < records[d.item].ts
        /\ \E i \in 1..Len(queue) : queue[i][2] = d.item
        /\ WatchOf(d.item + 1) = WatchOf(d.item)
        /\ InDict(ready_items, d.item + 1)

\* the records put_nowait has enqueued that no later record of their
\* message supersedes
NonSuperseded ==
    {r \in 1..Len(records) :
        \A r2 \in (r + 1)..Len(records) : records[r2].watch # records[r].watch}

\* the queue still holds item, on the heap or in ready_items
Held(item) ==
    InDict(ready_items, item) \/ \E i \in 1..Len(queue) : queue[i][2] = item

\* C5: liveness: every enqueued, non-superseded record is eventually
\* returned; for that, such a record must stay in the queue until get has
\* returned it
C5_NoRecordLost ==
    \A r \in NonSuperseded : (\A d \in delivered : d.item # r) => Held(r)

\* C7: deadline-ordered delivery: a record get takes from the heap has the
\* earliest deadline of the records on the heap, whatever the enqueue order
C7_DeadlineOrder == \A d \in delivered : d.path = "heap" => d.first

\* get returned a record while a record enqueued before it, with a later
\* deadline, stayed on the heap
C7_Witness ==
    \E d \in delivered :
        /\ d.path = "heap" /\ WatchOf(d.item) # NoMsg
        /\ \E i \in 1..Len(queue) :
              /\ WatchOf(queue[i][2]) # NoMsg
              /\ queue[i][2] < d.item
              /\ queue[i][1] > records[d.item].ts

\* the identities (WatchMessages) the queue stores a record of
StoredIdentities ==
    {w \in Msgs : \E r \in 1..Len(records) : records[r].watch = w /\ Held(r)}

\* C8: capacity counts distinct live identities: put_nowait raises
\* queue.Full if and only if the record's identity is not stored and
\* maxsize identities are
C8_FullIffNewIdentity ==
    [][\A p \in Msgs :
          Put(p) => (put_result'.result = "Full"
                        <=> /\ p \notin StoredIdentities
                            /\ Cardinality(StoredIdentities) >= maxsize)]_vars

\* the message of p is as it was when its latest record was enqueued, and
\* that record is still on the heap: another put_nowait for it enqueues a
\* version that is not newer
StaleUpdate(p) ==
    /\ ~ready[p] /\ timeout_on[p] # NoTime
    /\ \E r \in NonSuperseded :
          /\ records[r].watch = p /\ records[r].ts = timeout_on[p]
          /\ \E i \in 1..Len(queue) : queue[i][2] = r

\* C9: a stale update is a silent no-op: it leaves the heap, ready_items
\* and garbage_items unchanged, raises nothing and notifies nobody
C9_StaleUpdateIsNoOp ==
    [][\A p \in Msgs :
          StaleUpdate(p) /\ Put(p)
              => /\ UNCHANGED <<store, notified>>
                 /\ put_result'.result = "ok"]_vars

C11_DefaultDelayApplies ==
    /\ [][Len(records') > Len(records)
            => \A w \in Msgs :
                  records'[Len(records')].watch = w /\ timeout_on[w] = NoTime
                      => records'[Len(records')].ts = now + default_delay_sec]_vars
    /\ [](\A d \in delivered :
            WatchOf(d.item) # NoMsg /\ ~d.final => d.due)

\* get has returned, not ready and after default_delay_sec > 0, a record
\* whose message never had a timeout
C11_Witness ==
    /\ default_delay_sec > 0
    /\ \E d \in delivered :
          /\ WatchOf(d.item) # NoMsg /\ ~d.final /\ d.due
          /\ timeout_on[WatchOf(d.item)] = NoTime

\* C11: a record created without a timeout waits for set_ready: get does
\* not return it, however much time passes, until it is ready
C11_WaitsForFinalize ==
    \A d \in delivered :
        WatchOf(d.item) # NoMsg /\ timeout_on[WatchOf(d.item)] = NoTime => d.final

\* C12: no busy polling: a consumer that waits while the heap is empty
\* waits without a timeout, until it is notified
C12_NoBusyWait ==
    \A c \in Consumers :
        pc[c] = "wait" /\ Len(queue) = 0 => wait_until[c] = NoTime

\* C13: no missed wake-up: a consumer sleeps in wait() only while nothing
\* is in ready_items and its wake-up time is not later than the earliest
\* deadline on the heap; a put_nowait of an earlier deadline or a set_ready
\* notifies it
C13_NoMissedWakeUp ==
    \A c \in Consumers :
        pc[c] = "wait" /\ ~notified[c]
            => /\ Len(ready_items) = 0
               /\ Len(queue) > 0
                     => wait_until[c] # NoTime /\ wait_until[c] <= queue[1][1]

\* a consumer waiting for a deadline has been notified by the put_nowait of
\* a record of another message with an earlier deadline
C13_Witness ==
    \E c \in Consumers :
        /\ pc[c] = "wait" /\ notified[c] /\ wait_until[c] # NoTime
        /\ Len(queue) = 2
        /\ queue[1][1] < wait_until[c] /\ queue[2][1] = wait_until[c]
        /\ WatchOf(queue[1][2]) # NoMsg /\ WatchOf(queue[2][2]) # NoMsg
        /\ WatchOf(queue[1][2]) # WatchOf(queue[2][2])
        /\ queue[1][2] > queue[2][2]

\* the exceptions a get call can end with
GetErrors == {"TypeError", "IndexError", "KeyError"}

\* C14: get never raises: a consumer is about to call get, inside get,
\* waiting, or has received the sentinel
C14_GetNeverRaises == \A c \in Consumers : pc[c] \notin GetErrors

\* C15: put_nowait raises nothing but queue.Full
C15_PutRaisesOnlyFull == put_result.result \in {"none", "ok", "Full"}

\* C16: shutdown: once the sentinel has been enqueued, the consumer gets
\* it; for that, until get has returned the sentinel, the sentinel stays
\* on the heap and the consumer keeps running
C16_SentinelIsReceived ==
    \A c \in Consumers :
        stop_pc = "done" /\ pc[c] \notin {"off", "stopped"}
            => pc[c] \notin GetErrors /\ Held(Sentinel)

\* the consumer has left the with block of get: what it does from here on
\* it does without new_item_condition
OutsideLock(c) == pc[c] = "picked"

\* C17: lock discipline: the heap, ready_items and garbage_items are only
\* modified by a thread that holds new_item_condition
C17_LockDiscipline ==
    [][\A c \in Consumers :
          OutsideLock(c) /\ pc'[c] # pc[c] => UNCHANGED store]_vars

\* C19: with force_default_delay get returns no record earlier than
\* default_delay_sec after its put_nowait, ready or not
C19_ForcedDelay ==
    \A d \in delivered :
        force_default_delay /\ WatchOf(d.item) # NoMsg => d.due

\* C18: garbage collection is never needed for correctness: run at any
\* point between operations, it changes nothing in what later get calls
\* come to, so a queue that collects and one that only deletes lazily,
\* given the same calls, settle on the same candidate in every pass of get
\* and return the same records; this is stated for the runs in which no
\* two heap entries have shared a deadline
C18_SameDeliveries == ~tied => twin # "differs"

\* C20: the rate aggregator emits exactly one finalized rate record per
\* window: no two finalized rate records carry the same window identity
C20_OneFinalPerWindow ==
    \A e1 \in emitted, e2 \in emitted :
        /\ e1.rate /\ e2.rate
        /\ final(e1.watch) /\ final(e2.watch)
        /\ e1.watch.WatchID = e2.watch.WatchID
        => e1 = e2

\* ---- the rates of a window ----

\* the calls of filter that belong to the window e was filtered in: the
\* related records up to e that no finalized rate record separates from it
InWindow(e) ==
    {f \in emitted :
        /\ f.rate
        /\ f.call <= e.call
        /\ \A g \in emitted :
              g.rate /\ final(g.watch) => g.call < f.call \/ g.call >= e.call}

\* the time the window of e started at
WindowStart(e) ==
    LET closing == {g \in emitted : g.rate /\ final(g.watch) /\ g.call < e.call}
    IN  IF closing = {} THEN 1
        ELSE (CHOOSE g \in closing : \A h \in closing : h.call <= g.call).arrived

\* the records of the window whose values the rate of e is made of: the
\* final ones, and the latest non-final one of each operation still pending
Contributors(e) ==
    LET window(w) ==
            {f \in w :
                \/ final(f.input)
                \/ /\ ~ignore_intermediates
                   /\ \A g \in w : g.call > f.call
                                      => g.input.WatchID # f.input.WatchID}
    IN  window(InWindow(e))

\* what a record adds to the total of a tracked attribute: its value when it
\* is a number, one unit when it is not, nothing when it has no such field
Contribution(v) == IF v = Absent THEN 0 ELSE IF v = PyNone THEN 1 ELSE v

RECURSIVE SumContributions(_, _)
SumContributions(fs, a) ==
    IF fs = {} THEN 0
    ELSE LET f == CHOOSE x \in fs : TRUE
         IN  Contribution(f.input.values[a]) + SumContributions(fs \ {f}, a)

\* no record of the window of e has None for a tracked attribute while
\* ignore_nones is set
NoIgnoredNone(e) ==
    ~ignore_nones \/ \A f \in InWindow(e), a \in DOMAIN attributes :
                         f.input.values[a] # PyNone

\* C21: the value a rate record passed downstream carries for each tracked attribute is
\* round((the window's total with the inbound record + the pending snapshots
\* of the non-final records) / max(elapsed, window length)), a numeric value
\* counting as itself and a non-numeric one as one unit
C21_RateFormula ==
    \A e \in emitted :
        e.rate /\ e.result /\ NoIgnoredNone(e) =>
            \A a \in DOMAIN attributes :
                e.watch.values[a] =
                    RoundDiv(SumContributions(Contributors(e), a),
                             IF e.arrived - WindowStart(e) > output_rate_sec
                             THEN e.arrived - WindowStart(e)
                             ELSE output_rate_sec)

\* C22: a non-final record that arrives when the window length has passed,
\* in a window no final record has arrived in, is passed downstream as the
\* rate record of the window, with a deadline or finalized
C22_NonFinalWindowFlushes ==
    \A e \in emitted :
        /\ e.rate
        /\ ~drop_records
        /\ e.arrived - WindowStart(e) >= output_rate_sec
        /\ \A f \in InWindow(e) : ~final(f.input)
        => /\ e.result
           /\ final(e.watch) \/ e.watch.timeout_on # NoTime

\* the watch carries none of the configured attributes, or with
\* ignore_nones only None for them
Unrelated(watch) ==
    \A a \in DOMAIN attributes :
        \/ watch.values[a] = Absent
        \/ ignore_nones /\ watch.values[a] = PyNone

\* C23: filter returns an unrelated record unmodified and leaves the totals,
\* the pending snapshots, the window identity and the iteration counter as
\* they were
C23_PassThrough ==
    [][\A e \in emitted' \ emitted :
          Unrelated(e.input) =>
              /\ e.result
              /\ e.msg = e.input /\ e.watch = e.input
              /\ e.watch_ref = "msg" /\ e.original_watch = "none"
              /\ UNCHANGED <<attributes, intermediate_records, namespace,
                             next_watch_id>>]_vars

\* a record with only None for the tracked attributes has passed a filter
\* with ignore_nones that holds a pending snapshot
C23_Witness ==
    \E e \in emitted :
        /\ Unrelated(e.input)
        /\ \E a \in DOMAIN attributes : e.input.values[a] = PyNone
        /\ intermediate_records # <<>>

\* the rate records passed downstream
Passed == {e \in emitted : e.rate /\ e.result}

\* Iteration i supersedes Iteration j: the one of a finalized record is
\* above every other
Supersedes(i, j) == j # Finalized /\ (i = Finalized \/ i > j)

\* C24: a rate record passed downstream carries the WatchID of the rate
\* records passed before it in the same window and a strictly larger
\* Iteration than theirs, and not the WatchID of a window that a finalized
\* rate record has closed
C24_SharedWindowIdentity ==
    [][\A e \in Passed' \ Passed, f \in Passed :
          IF \E g \in Passed :
                final(g.watch) /\ g.watch.WatchID = f.watch.WatchID
          THEN e.watch.WatchID # f.watch.WatchID
          ELSE /\ e.watch.WatchID = f.watch.WatchID
               /\ Supersedes(e.watch.Iteration, f.watch.Iteration)]_vars

\* C25: with clone_watch, filter changes no field of the watch that was
\* logged and turns only the clone into a rate record; the restore puts the
\* logged watch back as record.watch and removes original_watch, and a
\* second restore changes nothing
C25_CloneAndRestore ==
    clone_watch =>
        /\ \A e \in emitted :
              /\ e.msg = e.input
              /\ e.rate => e.watch_ref = "clone" /\ e.original_watch = "msg"
        /\ \A x \in restorations :
              /\ x.of.watch_ref = "msg"
              /\ x.of.watch = x.of.input /\ x.of.msg = x.of.input
              /\ x.of.original_watch = "none"
              /\ x.restores > 1 => x.of = x.was

\* a record whose clone became a rate record that differs from the logged
\* watch has been restored twice
C25_Witness ==
    /\ clone_watch
    /\ \E x \in restorations, e \in emitted :
          /\ x.restores = MaxRestores
          /\ e.call = x.of.call
          /\ e.rate /\ e.watch # e.input

\* C26: with ignore_nones, when filter folds a final record into the totals,
\* a tracked attribute the record holds None for gets nothing added, and the
\* other tracked attributes get the record's contribution
C26_NoneAddsNothing ==
    [][\A t \in Threads :
          /\ ignore_nones
          /\ filter_pc[t] = "fold" /\ filter_pc'[t] = "iterate"
          /\ final(filter_record[t].input)
          => \A a \in DOMAIN attributes :
                attributes'[a] - attributes[a] =
                    IF filter_record[t].input.values[a] = PyNone THEN 0
                    ELSE Contribution(filter_record[t].input.values[a])]_vars

\* C27: a RateFilter is constructed without error whether attributes are
\* given or not
C27_ConstructsWithoutAttributes == filter_error = "none"

\* the key and the value a defined argument is recorded with
RecordedAs(arg) ==
    IF op_config.defined[arg].to = "Unset" THEN arg
    ELSE op_config.defined[arg].to

\* C28: whatever casts raise, before or after the operation, the caller
\* gets the operation's own result or exception, the first and the final
\* log are emitted, every field is recorded, and a field whose cast raised
\* has the value it had before the cast
C28_CastFailuresAbsorbed ==
    op_pc = "done" =>
        /\ op_outcome = op_result
        /\ Len(op_logs) = 2
        /\ op_logs[1].level = "first" /\ op_logs[2].level = "final"
        /\ op_logs[2].watch = op_message
        /\ \A arg \in {"filter", "update"} :
              RecordedAs(arg) # "" =>
                  /\ RecordedAs(arg) \in DOMAIN op_logs[1].watch.fields
                  /\ RecordedAs(arg) \in DOMAIN op_message.fields
                  /\ op_config.defined[arg].cast = "raises" =>
                        op_message.fields[RecordedAs(arg)] = FieldValue(arg)
        /\ op_config.undefined.to = "Unset" =>
              /\ "upsert" \in DOMAIN op_message.fields
              /\ op_config.undefined.cast = "raises" =>
                    op_message.fields["upsert"] = ArgumentValue("upsert")
        /\ ResultField.to # "" =>
              /\ ResultField.to \in DOMAIN op_message.fields
              /\ ResultField.cast = "raises" =>
                    op_message.fields[ResultField.to] =
                        IF op_config.result.cast = "str"
                        THEN RunCast("str", IF op_config.raises THEN PyNone
                                            ELSE ResultValue).value
                        ELSE IF op_config.raises THEN PyNone ELSE ResultValue

\* an operation that raised is over, and a cast raised before it and
\* another after it
C28_Witness ==
    /\ op_pc = "done"
    /\ op_config.raises
    /\ op_config.defined["filter"].cast = "raises"
    /\ op_config.defined["update"].to = "Unset"
    /\ op_config.undefined.cast = "raises" /\ op_config.undefined.to = "Unset"
    /\ op_config.redefined /\ ResultField.cast = "raises"

\* the calls of finalize on record id, and the logs of level final for it
Finalizations(id) ==
    Cardinality({i \in DOMAIN finalized : finalized[i].record_id = id})
FinalLogs(id) ==
    Cardinality({i \in DOMAIN cursor_log :
                    /\ cursor_log[i].record_id = id
                    /\ cursor_log[i].level = "final"})

\* C29: a record of the cursor is finalized at most once, with one log of
\* level final that shows it final, and it has been finalized once close
\* has run for it, inside next or on its own
C29_FinalizedOnce ==
    \A id \in 1..cursor.record_id :
        /\ Finalizations(id) <= 1
        /\ FinalLogs(id) = Finalizations(id)
        /\ id \in closed => Finalizations(id) = 1
        /\ \A i \in DOMAIN cursor_log :
              cursor_log[i].level = "final" <=> final(cursor_log[i].watch)

\* the cursor closed itself inside next, which finalized the record, and
\* close has been called since as often as a run calls it
C29_Witness ==
    /\ finalized = <<[record_id |-> 1, by |-> "next"]>>
    /\ calls.close = MaxCloses
    /\ calls.rewind = 0

\* C30: a call of next on a cursor whose record is final changes no field
\* of the record, nor its deadline, and emits no log
C30_FinalIsTerminal ==
    [][/\ calls'.next = calls.next + 1
       /\ cursor.has_watch_log
       /\ final(cursor.watch_log)
       => /\ cursor'.watch_log = cursor.watch_log
          /\ cursor_log' = cursor_log]_vars

\* C35: the two delivery paths never return the same record twice: no
\* record of a WatchMessage is returned by get once from the heap, its
\* deadline elapsed, and once from ready_items, its message finalized
C35_OnePathPerRecord ==
    \A d1, d2 \in delivered :
        d1.item = d2.item /\ WatchOf(d1.item) # NoMsg => d1.path = d2.path

\* C37: the garbage set stays bounded: every WatchMessage in garbage_items
\* still has an entry in the heap, the one lazy deletion or garbage_collect
\* will discard together with it
C37_GarbageHasHeapEntry ==
    \A w \in garbage_items : \E i \in 1..Len(queue) : WatchOf(queue[i][2]) = w

\* C38: with maxsize = N > 0 the heap never holds more than N entries,
\* also when several producer threads are inside put_nowait at once
C38_HeapWithinMaxsize == maxsize > 0 => Len(queue) <= maxsize

C39_NextFinalizesOnClose ==
    [][/\ Len(finalized') > Len(finalized)
       /\ finalized'[Len(finalized')].by = "next"
       => /\ cursor'.killed
          /\ finalized'[Len(finalized')].record_id \in closed']_vars

\* the calls of filter with a related record that have begun: those that
\* have returned and those under way
Received ==
    {[call |-> e.call, input |-> e.input] : e \in {x \in emitted : x.rate}}
        \cup {[call |-> filter_record[t].call, input |-> filter_record[t].input] :
                 t \in {u \in Threads : filter_pc[u] # "idle"}}

\* what the finalized rate records report for attribute a, all windows
\* together
RECURSIVE SumReported(_, _)
SumReported(es, a) ==
    IF es = {} THEN 0
    ELSE LET e == CHOOSE x \in es : TRUE
         IN  e.watch.values[a] + SumReported(es \ {e}, a)

\* C40: whatever the interleaving of the threads inside filter, no
\* contribution is counted twice and no window is finalized twice: the
\* finalized rate records of all windows together report, for each tracked
\* attribute, no more than the records received have contributed
C40_NothingCountedTwice ==
    \A a \in DOMAIN attributes :
        SumReported({e \in emitted : e.rate /\ final(e.watch)}, a)
            <= SumContributions(Received, a)

\* the latest log of cursor id the way watch_log_dict makes it
LogOf(id) == watch_log_dict(watch_cursors[id])

\* C31: after any sequence of calls of next on a stand-alone WatchCursor,
\* its log has the number of the calls as tried_fetched_count, the number
\* of those that returned as fetched_count, which is never the larger of
\* the two, and the time the calls of Cursor.next took as fetch_time
C31_CountsOfNext ==
    \A id \in DOMAIN watch_cursors :
        /\ LogOf(id).tried_fetched_count = fetches[id].calls
        /\ LogOf(id).fetched_count = fetches[id].returns
        /\ LogOf(id).fetched_count <= LogOf(id).tried_fetched_count
        /\ LogOf(id).fetch_time = fetches[id].time

\* ten calls of one time unit each have returned, and the three values
\* are 10, 10 and 10
C31_Witness ==
    \E id \in DOMAIN watch_cursors :
        /\ fetches[id] = [calls |-> MaxFetches, returns |-> MaxFetches,
                          time |-> MaxFetches]
        /\ LogOf(id).tried_fetched_count = MaxFetches
        /\ LogOf(id).fetched_count = MaxFetches
        /\ LogOf(id).fetch_time = MaxFetches

\* C34: a log yielded by watch_follow_logs is up to date: its counts and
\* its fetch time are those of all the calls of next made on its cursor
\* before the yield, whatever enable_all_logs the cursor was made with
C34_FollowedLogUpToDate ==
    \A i \in DOMAIN followed :
        /\ followed[i].log.tried_fetched_count = followed[i].fetches.calls
        /\ followed[i].log.fetched_count = followed[i].fetches.returns
        /\ followed[i].log.fetch_time = followed[i].fetches.time

\* the cursors watch_all_logs yields a log of, in the order of the logs
ListedCursors == [i \in DOMAIN all_logs |-> AllLogs[i].cursor]

\* the cursors made with enable_all_logs since watch_clear_logs
IsStored(id) == watch_cursors[id].enable_all_logs
StoredSinceClear == SelectSeq(since_clear, IsStored)

\* C33 (as stated): watch_all_logs yields exactly one log per cursor created
\* since the last watch_clear_logs, as long as the store has room for them,
\* in the order of their creation, and each log shows the latest counts of
\* its cursor
C33_OneLogPerCursor ==
    Len(since_clear) <= StoreLimit =>
        /\ ListedCursors = since_clear
        /\ \A i \in DOMAIN all_logs : AllLogs[i].log = LogOf(AllLogs[i].cursor)

\* C33 (amended): watch_all_logs yields exactly one log per cursor created
\* with enable_all_logs set since the last watch_clear_logs, as long as
\* the store has room for them, in the order of their creation, and each
\* log shows the latest counts of its cursor; a cursor created with
\* enable_all_logs=False has no log there
C33_OneLogPerStoredCursor ==
    Len(StoredSinceClear) <= StoreLimit =>
        /\ ListedCursors = StoredSinceClear
        /\ \A i \in DOMAIN all_logs : AllLogs[i].log = LogOf(AllLogs[i].cursor)

\* two logs are listed, one of a cursor that has been iterated over, and
\* a cursor made with enable_all_logs=False since the last
\* watch_clear_logs is not among them
C33_Witness ==
    /\ Len(AllLogs) = 2
    /\ \E i \in DOMAIN all_logs : AllLogs[i].log.tried_fetched_count > 0
    /\ \E i \in DOMAIN since_clear : ~IsStored(since_clear[i])

\* the cursors whose logs follower f has yielded, in the order of the yields
RECURSIVE YieldedTo(_, _)
YieldedTo(f, n) ==
    IF n = 0 THEN <<>>
    ELSE IF followed[n].follower = f
    THEN Append(YieldedTo(f, n - 1), followed[n].cursor)
    ELSE YieldedTo(f, n - 1)

\* the cursors created since the deque of follower f was registered
CreatedSince(f) ==
    [i \in 1..(Len(watch_cursors) - followers[f].start) |-> followers[f].start + i]

\* C32: the logs of the cursors created while the deque of a follower is
\* registered go to that follower once each and in the order of creation:
\* those it has yielded, those it has taken and those in its deque are
\* together the cursors created since, in that order; no log is yielded
\* before wait_time_ms has passed since the creation of its cursor; and a
\* follower inside wait with a log in its deque has been notified or wakes
\* by the time the first log of the deque is old enough
C32_FollowedInOrder ==
    /\ \A f \in Followers :
          Registered(f) =>
              /\ YieldedTo(f, Len(followed)) \o followers[f].logs \o followers[f].queue
                    = CreatedSince(f)
              /\ followers[f].pc = "waiting" /\ followers[f].queue # <<>> =>
                    \/ followers[f].notified
                    \/ /\ followers[f].wait_until # PyNone
                       /\ followers[f].wait_until * MsPerSec <=
                             watch_cursors[followers[f].queue[1]].create_time * MsPerSec
                                 + wait_time_ms
    /\ \A i \in DOMAIN followed :
          (followed[i].at - watch_cursors[followed[i].cursor].create_time) * MsPerSec
              >= wait_time_ms

\* a follower that waits a second for every log has yielded the logs of
\* two cursors
C32_Witness ==
    /\ wait_time_ms = MsPerSec
    /\ \E f \in Followers : Len(YieldedTo(f, Len(followed))) = 2

====
